---- MODULE Spec2Model ----
(***************************************************************************)
(* A model of refdocs: the markdown chunker (src/chunker.ts), the search   *)
(* index snapshot and the reranker (src/search.ts) and the incremental     *)
(* build coordinator (src/indexer.ts).                                     *)
(*                                                                         *)
(* Text is modelled line by line: a string is the sequence of its lines    *)
(* (what split("\n") returns, so never the empty sequence), a line is a    *)
(* record whose field s is the line's characters.  The empty string is the *)
(* one-line text <<BlankLine>>.                                            *)
(***************************************************************************)
EXTENDS Integers, Sequences, FiniteSets, TLC

VARIABLES
    \* ---- chunker (one chunkMarkdown call) ----
    content,     \* the file's text, as lines
    filePath,    \* the file's path
    options,     \* [maxTokens, minTokens]
    cpc,         \* "input" before the call, "done" after it
    sections,    \* pass 1 result (extractSections)
    merged,      \* pass 2 result (mergeSections)
    final,       \* pass 3 result (splitSections)
    chunks,      \* the returned Chunk[]
    \* ---- incremental build coordinator ----
    fs,          \* the corpus: path -> the file's text, or Absent
    config,      \* the resolved RefdocsConfig
    disk,        \* the snapshot file at config.index
    last,        \* the buildAndPersistIndex call of the latest step, if it was one
    loaded,      \* what loadPersistedIndex gave the query path, once it has run
    \* ---- search ----
    searchQuery, \* the query string
    searchOptions, \* [maxResults, fileFilter]
    indexHits,   \* what index.search(query) returns: ids and scores, best first
    searchResults, \* what search returned, once it has run
    baselineResults, \* what searchBaseline returned, once it has run
    \* ---- the search command ----
    globalDisk,  \* the global configuration, if there is one, and its snapshot file
    globalHits,  \* what the global index answers to index.search(query)
    sources,     \* what resolveIndexSources returned, once it has run
    outcome,     \* the results of the command or the error it reports, once it has run
    \* ---- the greedy loop of rerankCandidates, round by round ----
    loop,        \* where search is, with remaining, selected and the covered sets
    \* ---- the site crawler ----
    crawl        \* where crawlSite is, with its queue, visited set and results

chunkerVars == <<content, filePath, options, cpc, sections, merged, final, chunks>>

indexerVars == <<fs, config, disk, last, loaded>>

searchVars == <<searchQuery, searchOptions, indexHits, searchResults, baselineResults>>

queryVars == <<globalDisk, globalHits, sources, outcome>>

rerankVars == <<loop>>

crawlVars == <<crawl>>

vars == <<chunkerVars, indexerVars, searchVars, queryVars, rerankVars, crawlVars>>

\* No global configuration, the search command has not run and neither a
\* search nor a crawl is under way.
IdleQuery ==
    /\ globalDisk = [configured |-> FALSE]
    /\ globalHits = <<>>
    /\ sources = <<>>
    /\ outcome = <<>>
    /\ loop = [pc |-> "idle"]
    /\ crawl = [pc |-> "idle"]

-----------------------------------------------------------------------------
(* Bounds of the model.                                                    *)

\* The longest document (in lines) that is drawn without front matter.
MaxLines == 5

\* The longest body (lines after the front matter) of a document that is
\* drawn with front matter.
MaxFmLines == 4

-----------------------------------------------------------------------------
(* Text                                                                    *)

BlankLine == [k |-> "blank", d |-> 0, s |-> "", t |-> ""]
FenceLine == [k |-> "fence", d |-> 0, s |-> "---", t |-> ""]

EmptyStr == <<BlankLine>>

\* A line of no characters at all.
IsEmptyLine(l) == Len(l.s) = 0

RECURSIVE SumLen(_)
SumLen(ls) == IF ls = <<>> THEN 0 ELSE Len(Head(ls).s) + SumLen(Tail(ls))

\* text.length: the characters of the lines and the "\n" between them.
StrLen(text) == SumLen(text) + Len(text) - 1

\* A JavaScript string is truthy when it is not "".
Truthy(text) == StrLen(text) > 0

\* String.prototype.trim, on lines whose first and last characters are not
\* whitespace unless the whole line is (a blank line).
Trim(text) ==
    LET keep == {i \in 1..Len(text) : text[i].k # "blank"}
    IN  IF keep = {} THEN EmptyStr
        ELSE LET lo == CHOOSE i \in keep : \A j \in keep : i <= j
                 hi == CHOOSE i \in keep : \A j \in keep : i >= j
             IN  SubSeq(text, lo, hi)

\* a + "\n\n" + b
JoinPara(a, b) == a \o <<BlankLine>> \o b

SliceJoinMutant(lines, from, to) ==
    IF to - 1 <= from THEN EmptyStr ELSE SubSeq(lines, from + 1, to - 1)

\* lines.slice(from, to).join("\n"), from 0-based inclusive, to exclusive.
SliceJoin(lines, from, to) ==
    IF to <= from THEN EmptyStr ELSE SubSeq(lines, from + 1, to)

\* estimateTokens: Math.ceil(text.length / 4)
estimateTokens(text) == (StrLen(text) + 3) \div 4

-----------------------------------------------------------------------------
(* Front matter and the markdown tree                                      *)

\* content.replace(FRONTMATTER_RE, ""): the first line is "---" and a later
\* line, not the second, starts with "---"; everything up to and including
\* the first such line (and its newline) is removed.
StripFrontmatter(lines) ==
    LET closing == {j \in 3..Len(lines) : lines[j].k = "fence"}
    IN  IF Len(lines) >= 3 /\ lines[1].k = "fence" /\ closing # {}
        THEN LET j == CHOOSE i \in closing : \A m \in closing : i <= m
             IN  IF j = Len(lines) THEN EmptyStr
                 ELSE SubSeq(lines, j + 1, Len(lines))
        ELSE lines

\* fromMarkdown(stripped).children for documents of ATX headings, paragraph
\* lines and blank lines: a heading is a node of one line, a paragraph is a
\* maximal run of text lines; positions are 1-based lines of the stripped text.
RECURSIVE ParseFrom(_, _)
ParseFrom(lines, i) ==
    IF i > Len(lines) THEN <<>>
    ELSE IF lines[i].k = "h"
         THEN <<[type |-> "heading", depth |-> lines[i].d, text |-> lines[i].t,
                 start |-> i, end |-> i]>> \o ParseFrom(lines, i + 1)
    ELSE IF lines[i].k = "p"
         THEN LET stop == {j \in i..Len(lines) :
                              j = Len(lines) \/ lines[j + 1].k # "p"}
                  e == CHOOSE j \in stop : \A m \in stop : j <= m
              IN  <<[type |-> "paragraph", depth |-> 0, text |-> "",
                     start |-> i, end |-> e]>> \o ParseFrom(lines, e + 1)
    ELSE ParseFrom(lines, i + 1)

fromMarkdown(lines) == ParseFrom(lines, 1)

-----------------------------------------------------------------------------
(* fileTitle                                                               *)

fileTitleMutant(p) == p.base \o "." \o p.ext

\* fileTitle(filePath): the last path segment without a .md or .txt suffix.
fileTitle(p) == IF p.ext \in {"md", "txt"} THEN p.base ELSE p.base \o "." \o p.ext

-----------------------------------------------------------------------------
(* Pass 1: extractSections                                                 *)

RECURSIVE PopTo(_, _)
\* while (stack.length > 0 && top.depth >= depth) stack.pop()
PopTo(stack, depth) ==
    IF Len(stack) > 0 /\ stack[Len(stack)].depth >= depth
    THEN PopTo(SubSeq(stack, 1, Len(stack) - 1), depth)
    ELSE stack

PushHeadingMutant(stack, node) ==
    Append(stack, [text |-> node.text, depth |-> node.depth])

\* Update heading stack: pop to depth < current, then push.
PushHeading(stack, node) ==
    Append(PopTo(stack, node.depth), [text |-> node.text, depth |-> node.depth])

\* node.type === "heading" && node.depth <= 3
IsSplitPoint(node) == node.type = "heading" /\ node.depth <= 3

\* pushCurrentSection(endLine), for a non-null currentStart.
CurrentSection(st, endLine, lineOffset) ==
    [headings  |-> [i \in 1..Len(st.stack) |-> st.stack[i].text],
     depth     |-> IF Len(st.stack) > 0 THEN st.stack[Len(st.stack)].depth ELSE 0,
     body      |-> Trim(st.currentBody),
     startLine |-> st.currentStart + lineOffset,
     endLine   |-> endLine + lineOffset]

\* The preamble section: content before the first depth 1-3 heading.  Its
\* heading is fileTitle() called without a file path, which is "Untitled".
Preamble(children, lines, lineOffset) ==
    LET hs == {i \in 1..Len(children) : IsSplitPoint(children[i])}
    IN  IF hs = {} THEN <<>>
        ELSE LET first == children[CHOOSE i \in hs : \A j \in hs : i <= j]
                 firstHeadingLine == first.start
                 preambleBody == Trim(SliceJoin(lines, 0, firstHeadingLine - 1))
             IN  IF firstHeadingLine > 1 /\ Truthy(preambleBody)
                 THEN <<[headings  |-> <<"Untitled">>,
                         depth     |-> 0,
                         body      |-> preambleBody,
                         startLine |-> 1 + lineOffset,
                         endLine   |-> firstHeadingLine - 1 + lineOffset]>>
                 ELSE <<>>

\* One iteration of the loop over the tree's children; currentStart 0 is null.
ExtractNode(st, node, lines, lineOffset) ==
    IF IsSplitPoint(node)
    THEN [sections     |-> IF st.currentStart # 0
                           THEN Append(st.sections,
                                       CurrentSection(st, node.start - 1, lineOffset))
                           ELSE st.sections,
          stack        |-> PushHeading(st.stack, node),
          currentStart |-> node.start,
          currentBody  |-> EmptyStr]
    ELSE LET text == SliceJoin(lines, node.start - 1, node.end)
         IN  [st EXCEPT !.currentBody =
                  IF Truthy(@) THEN JoinPara(@, text) ELSE text]

RECURSIVE ExtractLoop(_, _, _, _, _)
ExtractLoop(st, children, i, lines, lineOffset) ==
    IF i > Len(children) THEN st
    ELSE ExtractLoop(ExtractNode(st, children[i], lines, lineOffset),
                     children, i + 1, lines, lineOffset)

extractSections(children, lines, lineOffset) ==
    LET st0 == [sections     |-> Preamble(children, lines, lineOffset),
                stack        |-> <<>>,
                currentStart |-> 0,
                currentBody  |-> EmptyStr]
        st  == ExtractLoop(st0, children, 1, lines, lineOffset)
    IN  IF st.currentStart # 0
        THEN Append(st.sections, CurrentSection(st, Len(lines), lineOffset))
        ELSE st.sections

-----------------------------------------------------------------------------
(* Pass 2: mergeSections                                                   *)

\* The line `${"#".repeat(depth || 1)} ${last}`.
HeadingLine(depth, text) ==
    LET n == IF depth = 0 THEN 1 ELSE depth
    IN  [k |-> "h", d |-> n, t |-> text,
         s |-> <<"#", "##", "###", "####", "#####", "######">>[n] \o " " \o text]

formatHeadingLine(section) ==
    IF Len(section.headings) = 0 THEN EmptyStr
    ELSE <<HeadingLine(section.depth, section.headings[Len(section.headings)])>>

ShouldMergeMutant(tokens, minTokens, prev, current) == tokens < minTokens

\* Only merge siblings (same depth) when the current section is small.
ShouldMerge(tokens, minTokens, prev, current) ==
    tokens < minTokens /\ prev.depth = current.depth

\* What a merge makes of prev when it absorbs current.
Absorb(prev, current) ==
    LET heading  == formatHeadingLine(current)
        addition == IF Truthy(heading) THEN JoinPara(heading, current.body)
                    ELSE current.body
    IN  [prev EXCEPT !.body    = IF Truthy(@) THEN JoinPara(@, addition) ELSE addition,
                     !.endLine = current.endLine]

RECURSIVE MergeLoop(_, _, _, _)
MergeLoop(result, secs, i, minTokens) ==
    IF i > Len(secs) THEN result
    ELSE LET current == secs[i]
             prev    == result[Len(result)]
             tokens  == estimateTokens(current.body)
         IN  MergeLoop(IF ShouldMerge(tokens, minTokens, prev, current)
                       THEN [result EXCEPT ![Len(result)] = Absorb(prev, current)]
                       ELSE Append(result, current),
                       secs, i + 1, minTokens)

mergeSections(secs, minTokens) ==
    IF Len(secs) <= 1 THEN secs
    ELSE MergeLoop(<<secs[1]>>, secs, 2, minTokens)

-----------------------------------------------------------------------------
(* Pass 3: splitSections                                                   *)

\* The newline after line i of the text belongs to a run of two or more.
InBreak(text, i) ==
    \/ IsEmptyLine(text[i + 1]) /\ i + 1 < Len(text)
    \/ IsEmptyLine(text[i]) /\ i > 1

RECURSIVE SplitFrom(_, _, _)
\* body.split(/\n\n+/) is SplitFrom(body, 1, <<>>): the paragraphs from line i
\* on are added to acc.
SplitFrom(text, i, acc) ==
    IF i > Len(text) THEN acc
    ELSE IF 1 < i /\ i < Len(text) /\ IsEmptyLine(text[i])
         THEN SplitFrom(text, i + 1, acc)
    ELSE IF i = 1 \/ InBreak(text, i - 1)
         THEN SplitFrom(text, i + 1, Append(acc, <<text[i]>>))
    ELSE SplitFrom(text, i + 1, [acc EXCEPT ![Len(acc)] = Append(@, text[i])])

FitsMutant(text, maxTokens) == estimateTokens(text) <= maxTokens + 1

\* estimateTokens(text) <= maxTokens
Fits(text, maxTokens) == estimateTokens(text) <= maxTokens

\* One iteration of the loop over the paragraphs of an oversized section.
SplitPara(st, para, section, maxTokens) ==
    LET candidate == IF Truthy(st.accumBody) THEN JoinPara(st.accumBody, para)
                     ELSE para
    IN  IF ~Fits(candidate, maxTokens) /\ Truthy(st.accumBody)
        THEN LET bodyLines == Len(st.accumBody)
                 consumed  == st.linesConsumed + bodyLines + 1
             IN  [out |-> Append(st.out,
                                 [section EXCEPT !.body      = st.accumBody,
                                                 !.startLine = st.subStart,
                                                 !.endLine   = st.subStart + bodyLines - 1]),
                  accumBody     |-> para,
                  subStart      |-> section.startLine + consumed,
                  linesConsumed |-> consumed]
        ELSE [st EXCEPT !.accumBody = candidate]

RECURSIVE SplitParaLoop(_, _, _, _, _)
SplitParaLoop(st, paragraphs, i, section, maxTokens) ==
    IF i > Len(paragraphs) THEN st
    ELSE SplitParaLoop(SplitPara(st, paragraphs[i], section, maxTokens),
                       paragraphs, i + 1, section, maxTokens)

\* What splitSections pushes for one section.
SplitOne(section, maxTokens) ==
    IF Fits(section.body, maxTokens) THEN <<section>>
    ELSE LET st == SplitParaLoop([out |-> <<>>, accumBody |-> EmptyStr,
                                  subStart |-> section.startLine,
                                  linesConsumed |-> 0],
                                 SplitFrom(section.body, 1, <<>>), 1, section, maxTokens)
         IN  IF Truthy(Trim(st.accumBody))
             THEN Append(st.out, [section EXCEPT !.body      = st.accumBody,
                                                 !.startLine = st.subStart])
             ELSE st.out

RECURSIVE splitSections(_, _)
splitSections(secs, maxTokens) ==
    IF secs = <<>> THEN <<>>
    ELSE SplitOne(Head(secs), maxTokens) \o splitSections(Tail(secs), maxTokens)

-----------------------------------------------------------------------------
(* chunkMarkdown                                                           *)

RECURSIVE JoinHeadings(_)
\* headings.join(" > ")
JoinHeadings(hs) ==
    IF hs = <<>> THEN ""
    ELSE IF Len(hs) = 1 THEN hs[1]
    ELSE hs[1] \o " > " \o JoinHeadings(Tail(hs))

makeChunk(file, title, headings, body, startLine, endLine, index) ==
    [id            |-> file.dir \o "/" \o file.base \o "." \o file.ext \o ":"
                           \o ToString(index),
     file          |-> file,
     title         |-> title,
     headings      |-> JoinHeadings(headings),
     body          |-> body,
     startLine     |-> startLine,
     endLine       |-> endLine,
     tokenEstimate |-> estimateTokens(body)]

\* Every intermediate result of one chunkMarkdown call.
NoPasses == [sections |-> <<>>, merged |-> <<>>, final |-> <<>>, chunks |-> <<>>]

\* The map over the sections the filter keeps: the title is the last heading,
\* or fileTitle(filePath) when there is none or it is "".
ToChunks(nonEmpty, file) ==
    [i \in 1..Len(nonEmpty) |->
        makeChunk(file,
                  IF /\ Len(nonEmpty[i].headings) > 0
                     /\ nonEmpty[i].headings[Len(nonEmpty[i].headings)] # ""
                  THEN nonEmpty[i].headings[Len(nonEmpty[i].headings)]
                  ELSE fileTitle(file),
                  nonEmpty[i].headings, nonEmpty[i].body, nonEmpty[i].startLine,
                  nonEmpty[i].endLine, i - 1)]

FromSplitMutant(secs, mrg, file, opts) ==
    [sections |-> secs, merged |-> mrg, final |-> splitSections(mrg, opts.maxTokens),
     chunks |-> SelectSeq(ToChunks(splitSections(mrg, opts.maxTokens), file),
                          LAMBDA c : Truthy(Trim(c.body)))]

\* chunkMarkdown from Pass 3 on, with what the passes before it produced;
\* the chunks are made of final.filter((s) => s.body.trim().length > 0).
FromSplit(secs, mrg, file, opts) ==
    [sections |-> secs, merged |-> mrg, final |-> splitSections(mrg, opts.maxTokens),
     chunks |-> ToChunks(SelectSeq(splitSections(mrg, opts.maxTokens),
                                   LAMBDA sec : Truthy(Trim(sec.body))), file)]

\* chunkMarkdown once the sections are extracted: a document of no section is
\* one chunk titled by its file; the others are merged and split.
FromSections(secs, text, stripped, file, opts) ==
    IF Len(secs) = 0
    THEN [NoPasses EXCEPT !.chunks =
             <<makeChunk(file, fileTitle(file), <<fileTitle(file)>>, Trim(stripped),
                         Len(text) - Len(stripped) + 1, Len(text), 0)>>]
    ELSE FromSplit(secs, mergeSections(secs, opts.minTokens), file, opts)

\* chunkMarkdown once the front matter is stripped.
FromStripped(text, stripped, file, opts) ==
    IF ~Truthy(Trim(text)) \/ ~Truthy(Trim(stripped)) THEN NoPasses
    ELSE FromSections(extractSections(fromMarkdown(stripped), stripped,
                                      Len(text) - Len(stripped)),
                      text, stripped, file, opts)

\* chunkMarkdown with the result of each of its passes.
Passes(text, file, opts) == FromStripped(text, StripFrontmatter(text), file, opts)

chunkMarkdown(text, file, opts) == Passes(text, file, opts).chunks

-----------------------------------------------------------------------------
(* The chunker's inputs                                                    *)

\* The line of kind kd at line i of the body: its text names the line.
MakeLine(kd, i) ==
    CASE kd = "h1" -> HeadingLine(1, "H" \o ToString(i))
      [] kd = "h2" -> HeadingLine(2, "H" \o ToString(i))
      [] kd = "h3" -> HeadingLine(3, "H" \o ToString(i))
      [] kd = "h4" -> HeadingLine(4, "H" \o ToString(i))
      [] kd = "text" -> [k |-> "p", d |-> 0, s |-> "ab" \o ToString(i), t |-> ""]
      [] OTHER -> BlankLine

\* The bodies of up to maxLen lines, by the kinds of their lines.
Shapes(maxLen) ==
    UNION {[1..n -> {"h1", "h2", "h3", "h4", "text", "blank"}] : n \in 1..maxLen}

\* The document of a body, after a front matter of one line when it has one.
Document(shape, hasFm) ==
    (IF hasFm
     THEN <<FenceLine, [k |-> "meta", d |-> 0, s |-> "title: x", t |-> ""], FenceLine>>
     ELSE <<>>) \o [i \in 1..Len(shape) |-> MakeLine(shape[i], i)]

GuidePath == [dir |-> "docs", base |-> "guide", ext |-> "md"]

\* The files that findMarkdownFiles collects end with .md or .txt.
FilePaths == {GuidePath, [dir |-> "docs", base |-> "notes", ext |-> "txt"]}

-----------------------------------------------------------------------------
(* The chunker as a state machine: an input is drawn, chunkMarkdown runs.  *)

\* A text line is 3 characters (1 token), a heading line 4 to 7 (1 or 2 tokens):
\* under the options drawn sections of a few lines are small, fitting or
\* oversized.
InitChunker ==
    /\ \/ \E shape \in Shapes(MaxLines) : content = Document(shape, FALSE)
       \/ \E shape \in Shapes(MaxFmLines) : content = Document(shape, TRUE)
    /\ filePath \in FilePaths
    /\ options \in {[maxTokens |-> 1, minTokens |-> 1],
                    [maxTokens |-> 2, minTokens |-> 2],
                    [maxTokens |-> 4, minTokens |-> 3]}
    /\ cpc = "input"
    /\ sections = <<>>
    /\ merged = <<>>
    /\ final = <<>>
    /\ chunks = <<>>
    /\ fs = <<>>
    /\ config = <<>>
    /\ disk = <<>>
    /\ last = <<>>
    /\ loaded = <<>>
    /\ searchQuery = ""
    /\ searchOptions = <<>>
    /\ indexHits = <<>>
    /\ searchResults = <<>>
    /\ baselineResults = <<>>
    /\ IdleQuery

ChunkFile ==
    /\ cpc = "input"
    /\ \E r \in {Passes(content, filePath, options)} :
           /\ sections' = r.sections
           /\ merged' = r.merged
           /\ final' = r.final
           /\ chunks' = r.chunks
    /\ cpc' = "done"
    /\ UNCHANGED <<content, filePath, options>>
    /\ UNCHANGED <<indexerVars, searchVars>>
    /\ UNCHANGED queryVars
    /\ UNCHANGED rerankVars
    /\ UNCHANGED crawlVars

NextChunker == ChunkFile

SpecChunker == InitChunker /\ [][NextChunker]_vars

-----------------------------------------------------------------------------
(* Properties of the chunker                                               *)

\* The text holds a "\n\n": a blank-line paragraph boundary.
HasParagraphBreak(text) == \E i \in 1..(Len(text) - 1) : InBreak(text, i)

\* The lines of the file after the front matter, and how many were removed.
Stripped == StripFrontmatter(content)
LineOffset == Len(content) - Len(Stripped)

\* Line p of the stripped text is a heading of depth 1 to 3.
IsSplitLine(p) == Stripped[p].k = "h" /\ Stripped[p].d <= 3

RECURSIVE Ascending(_)
\* The members of a set of numbers, smallest first.
Ascending(S) ==
    IF S = {} THEN <<>>
    ELSE LET m == CHOOSE x \in S : \A y \in S : x <= y
         IN  <<m>> \o Ascending(S \ {m})

\* The breadcrumb of the heading at line p, stated without a stack: the
\* split-point headings at or before p that no later split-point heading up
\* to p reaches in depth.
Ancestors(p) ==
    {q \in 1..p : /\ IsSplitLine(q)
                  /\ \A m \in (q + 1)..p : IsSplitLine(m) => Stripped[m].d > Stripped[q].d}

Breadcrumb(p) ==
    LET qs == Ascending(Ancestors(p))
    IN  [i \in 1..Len(qs) |-> Stripped[qs[i]].t]

\* The line of the stripped text whose heading text is txt (texts name lines).
HeadingLinesOf(txt) == {p \in 1..Len(Stripped) : Stripped[p].k = "h" /\ Stripped[p].t = txt}

\* C1: every returned passage has tokenEstimate >= 1, and tokenEstimate <=
\* maxTokens unless its body is one unsplittable block (no blank-line
\* paragraph boundary in it).
C1_SizeInvariant ==
    cpc = "done" =>
        \A i \in 1..Len(chunks) :
            /\ chunks[i].tokenEstimate >= 1
            /\ chunks[i].tokenEstimate > options.maxTokens
                   => ~HasParagraphBreak(chunks[i].body)

\* The document has no heading of depth 1 to 3: it is returned whole.
Headless == \A p \in 1..Len(Stripped) : ~IsSplitLine(p)

\* C1 (amended): every returned passage has tokenEstimate >= 1, and
\* tokenEstimate <= maxTokens unless its body is one unsplittable block or the
\* document has no depth 1-3 heading and is returned as a single passage.
C1_SizeInvariantAmended ==
    cpc = "done" =>
        \A i \in 1..Len(chunks) :
            /\ chunks[i].tokenEstimate >= 1
            /\ chunks[i].tokenEstimate > options.maxTokens
                   => ~HasParagraphBreak(chunks[i].body) \/ Headless

\* An oversized section was split into a passage that fits and a passage that
\* is one oversized block.
C1_Witness ==
    /\ cpc = "done"
    /\ ~Headless
    /\ Len(final) > Len(merged)
    /\ \E i \in 1..Len(chunks) : chunks[i].tokenEstimate > options.maxTokens
    /\ \E i \in 1..Len(chunks) : chunks[i].tokenEstimate <= options.maxTokens

\* C9: the headingPath of the section rooted at a heading h is the stack after
\* popping the entries of depth >= depth(h) and pushing h: the breadcrumb of h,
\* of strictly increasing depths and ending in h; a section never starts at a
\* heading of depth 4 or more; and for # A, ## B, ### C, ## D the passage
\* rooted at D has headingPath [A, D].
C9_HeadingBreadcrumb ==
    cpc = "done" =>
        /\ \A i \in 1..Len(sections) :
               sections[i].depth > 0 =>
                   LET p  == sections[i].startLine - LineOffset
                       hs == sections[i].headings
                   IN  /\ IsSplitLine(p)
                       /\ sections[i].depth = Stripped[p].d
                       /\ hs = Breadcrumb(p)
                       /\ hs[Len(hs)] = Stripped[p].t
                       /\ \A a, b \in 1..Len(hs) :
                              a < b => \A x \in HeadingLinesOf(hs[a]),
                                          y \in HeadingLinesOf(hs[b]) :
                                              Stripped[x].d < Stripped[y].d
        /\ \A i \in 1..Len(chunks) :
               \A p \in HeadingLinesOf(chunks[i].title) :
                   /\ IsSplitLine(p)
                   /\ chunks[i].headings = JoinHeadings(Breadcrumb(p))
        /\ content = Document(<<"h1", "h2", "h3", "h2", "text">>, FALSE)
               => /\ Len(chunks) = 1
                  /\ chunks[1].headings = "H1 > H4"

C9_Witness ==
    /\ cpc = "done"
    /\ content = Document(<<"h1", "h2", "h3", "h2", "text">>, FALSE)
    /\ Len(sections) = 4
    /\ sections[3].headings = <<"H1", "H2", "H3">>
    /\ chunks[1].title = "H4"

\* Section i of pass 1 is small and a sibling of the section before it.
SmallSibling(i) ==
    /\ i >= 2
    /\ estimateTokens(sections[i].body) < options.minTokens
    /\ sections[i].depth = sections[i - 1].depth

\* The last section of the run of absorbed sections that follows section g.
GroupEnd(g) ==
    CHOOSE h \in g..Len(sections) :
        /\ \A i \in (g + 1)..h : SmallSibling(i)
        /\ h = Len(sections) \/ ~SmallSibling(h + 1)

\* The absorbed section's heading line, a blank line, the absorbed text.
Inlined(i) ==
    <<HeadingLine(sections[i].depth, sections[i].headings[Len(sections[i].headings)]),
      BlankLine>> \o sections[i].body

RECURSIVE InlinedRun(_, _)
InlinedRun(from, to) ==
    IF from > to THEN <<>>
    ELSE IF from = to THEN Inlined(from)
    ELSE Inlined(from) \o <<BlankLine>> \o InlinedRun(from + 1, to)

MergedBody(g, h) ==
    IF g = h THEN sections[g].body
    ELSE IF Truthy(sections[g].body)
         THEN sections[g].body \o <<BlankLine>> \o InlinedRun(g + 1, h)
    ELSE InlinedRun(g + 1, h)

ContentLines == {p \in 1..Len(Stripped) : Stripped[p].k # "blank" /\ ~IsSplitLine(p)}

\* C11: every non-whitespace line of the body content (the lines after the
\* front matter that are not depth 1-3 heading lines) is a line of the body of
\* at least one returned passage: extraction, merging, splitting and the
\* filter of empty bodies lose no content.
C11_NoContentLost ==
    cpc = "done" =>
        \A p \in ContentLines :
            \E i \in 1..Len(chunks) :
                \E j \in 1..Len(chunks[i].body) : chunks[i].body[j] = Stripped[p]

\* A document with front matter and two lines of content or more went through
\* a merge and a split.
C11_Witness ==
    /\ cpc = "done"
    /\ LineOffset > 0
    /\ Cardinality(ContentLines) >= 2
    /\ Len(merged) < Len(sections)
    /\ Len(final) > Len(merged)

\* The text is empty or made of whitespace only.
IsWhitespace(text) == \A i \in 1..Len(text) : text[i].k = "blank"

C13_BodyTrimmed ==
    cpc = "done" =>
        \A i \in 1..Len(chunks) :
            /\ ~IsWhitespace(chunks[i].body)
            /\ chunks[i].body[1].k # "blank"
            /\ chunks[i].body[Len(chunks[i].body)].k # "blank"
            /\ chunks[i].tokenEstimate * 4 >= StrLen(chunks[i].body)
            /\ (chunks[i].tokenEstimate - 1) * 4 < StrLen(chunks[i].body)

\* The document has content before its first heading of depth 1 to 3.
HasPreamble ==
    \E f \in 2..Len(Stripped) :
        /\ IsSplitLine(f)
        /\ \A p \in 1..(f - 1) : ~IsSplitLine(p)
        /\ \E p \in 1..(f - 1) : Stripped[p].k # "blank"

\* C25: the content before the first heading of depth 1 to 3 becomes a
\* passage of its own, the first, whose heading path is the one entry
\* fileTitle(filePath), the base name of the file without its extension, and
\* whose title is that same name.
C25_PreambleTitled ==
    (cpc = "done" /\ HasPreamble) =>
        /\ Len(chunks) >= 1
        /\ chunks[1].startLine = LineOffset + 1
        /\ chunks[1].headings = filePath.base
        /\ chunks[1].title = filePath.base

\* The path of a file as the string that chunkMarkdown receives.
PathString(p) == p.dir \o "/" \o p.base \o "." \o p.ext

\* C14: the passages of a file have the ids <filePath>:0, <filePath>:1, ... in
\* the order they are returned, numbered after the empty passages are dropped;
\* so no two passages of a file share an id, and none shares its id with a
\* passage of a file of another path.
C14_SequentialIds ==
    cpc = "done" =>
        /\ \A i \in 1..Len(chunks) :
               chunks[i].id = PathString(filePath) \o ":" \o ToString(i - 1)
        /\ \A i, j \in 1..Len(chunks) : i # j => chunks[i].id # chunks[j].id
        /\ \A q \in FilePaths \ {filePath} :
               LET others == chunkMarkdown(content, q, options)
               IN  \A k \in 1..Len(others) :
                       \A i \in 1..Len(chunks) : chunks[i].id # others[k].id

\* Two passages or more were returned after a section of empty body was
\* dropped from the result of the split.
C14_Witness ==
    /\ cpc = "done"
    /\ Len(chunks) >= 2
    /\ Len(final) > Len(chunks)
    /\ ~Truthy(Trim(final[1].body))

\* C15: every returned passage has 1 <= startLine <= endLine, and endLine is
\* at most the number of lines of the original file, front matter included;
\* for plain sections, merged sections and the parts of a split section.
C15_LineRange ==
    cpc = "done" =>
        \A i \in 1..Len(chunks) :
            /\ 1 <= chunks[i].startLine
            /\ chunks[i].startLine <= chunks[i].endLine
            /\ chunks[i].endLine <= Len(content)

-----------------------------------------------------------------------------
(* The snapshot: serializeIndex and loadIndex (src/search.ts)              *)
(*                                                                         *)
(* A MiniSearch index is modelled by the set of documents it holds.  A     *)
(* file's JSON text is [wellFormed |-> FALSE] when JSON.parse throws on it *)
(* and [wellFormed |-> TRUE, data |-> the parsed value] otherwise.         *)

INDEX_VERSION == 3

Range(seq) == {seq[i] : i \in 1..Len(seq)}

\* new MiniSearch(...): an index of no documents.
createSearchIndex(cfg) == {}

\* MiniSearch.addAll throws when an id is already in the index.
AddAllThrows(index, cs) ==
    \/ \E i \in 1..Len(cs) : \E doc \in index : doc.id = cs[i].id
    \/ \E i, j \in 1..Len(cs) : i < j /\ cs[i].id = cs[j].id

addAll(index, cs) == index \cup Range(cs)

\* MiniSearch.discardAll throws when an id is not in the index.
DiscardAllThrows(index, ids) == \E id \in ids : \A doc \in index : doc.id # id

discardAll(index, ids) == {doc \in index : doc.id \notin ids}

indexChunks(index, cs) == addAll(index, cs)

\* buildChunkMap: a later chunk of the same id replaces an earlier one.
buildChunkMap(cs) ==
    [id \in {cs[i].id : i \in 1..Len(cs)} |->
        cs[CHOOSE i \in 1..Len(cs) :
               cs[i].id = id /\ \A j \in 1..Len(cs) : cs[j].id = id => j <= i]]

\* serializeIndex, without the createdAt time stamp.
serializeIndex(index, cs, fileHashes, configHash) ==
    [wellFormed |-> TRUE,
     data |-> [version         |-> INDEX_VERSION,
               miniSearchIndex |-> index,
               chunks          |-> cs,
               fileHashes      |-> fileHashes,
               configHash      |-> configHash]]

VersionAcceptedMutant(version) == version >= INDEX_VERSION

\* data.version !== INDEX_VERSION is false
VersionAccepted(version) == version = INDEX_VERSION

\* loadIndex(json, config): what it returns, or the error it throws (in the
\* message of the version error the command is between backquotes in the
\* source).
loadIndex(json, cfg) ==
    IF ~json.wellFormed THEN [ok |-> FALSE, error |-> "SyntaxError"]
    ELSE IF ~VersionAccepted(json.data.version)
         THEN [ok |-> FALSE,
               error |-> "Index version mismatch (found v" \o ToString(json.data.version)
                             \o ", expected v" \o ToString(INDEX_VERSION)
                             \o "). Run 'refdocs index' to rebuild."]
    ELSE [ok         |-> TRUE,
          index      |-> json.data.miniSearchIndex,
          chunks     |-> json.data.chunks,
          chunkMap   |-> buildChunkMap(json.data.chunks),
          fileHashes |-> json.data.fileHashes,
          configHash |-> json.data.configHash]

-----------------------------------------------------------------------------
(* The incremental build coordinator (src/indexer.ts)                      *)

Absent == <<>>

\* Every path of the corpus, in the order Array.prototype.sort gives.
AllPaths == <<[dir |-> "docs", base |-> "a", ext |-> "md"],
              [dir |-> "docs", base |-> "c", ext |-> "txt"],
              [dir |-> "notes", base |-> "b", ext |-> "md"]>>

\* The texts a file of the corpus may hold: one section of one paragraph; one
\* section of two paragraphs, which is one chunk or two by the size bounds.
FileTexts == {Document(<<"h2", "text">>, FALSE),
              Document(<<"h1", "text", "blank", "text">>, FALSE)}

BaseConfig ==
    [paths |-> <<"docs", "notes">>, index |-> ".refdocs-index.json",
     chunkMaxTokens |-> 2, chunkMinTokens |-> 2,
     boostFields |-> [title |-> 20, headings |-> 15, body |-> 10]]

\* The resolved configurations: the base, other size bounds, other boosts
\* (in tenths), other paths.
Configs == {BaseConfig,
            [BaseConfig EXCEPT !.chunkMaxTokens = 1, !.chunkMinTokens = 1],
            [BaseConfig EXCEPT !.boostFields = [title |-> 30, headings |-> 15, body |-> 10]],
            [BaseConfig EXCEPT !.paths = <<"docs">>]}

\* findMarkdownFiles(config.paths, configDir): the .md and .txt files under
\* the configured directories, without duplicates, sorted.
findMarkdownFiles(dirs, files) ==
    SelectSeq(AllPaths, LAMBDA p : /\ files[p] # Absent
                                   /\ p.dir \in Range(dirs)
                                   /\ p.ext \in {"md", "txt"})

RECURSIVE Flatten(_)
\* The characters of a text: its lines joined by "\n".
Flatten(text) ==
    IF Len(text) = 1 THEN text[1].s
    ELSE text[1].s \o "\n" \o Flatten(Tail(text))

\* hashFileContent: SHA-256, taken to be free of collisions.
hashFileContent(text) == "sha256(" \o Flatten(text) \o ")"

hashConfigMutant(cfg) ==
    "sha256(" \o JoinHeadings(cfg.paths) \o "," \o ToString(cfg.chunkMaxTokens) \o ","
        \o ToString(cfg.chunkMinTokens) \o "," \o ToString(cfg.boostFields.title) \o ","
        \o ToString(cfg.boostFields.headings) \o "," \o ToString(cfg.boostFields.body) \o ")"

\* hashConfig: SHA-256 of chunkMaxTokens, chunkMinTokens and boostFields.
hashConfig(cfg) ==
    "sha256(" \o ToString(cfg.chunkMaxTokens) \o "," \o ToString(cfg.chunkMinTokens)
        \o "," \o ToString(cfg.boostFields.title) \o "," \o ToString(cfg.boostFields.headings)
        \o "," \o ToString(cfg.boostFields.body) \o ")"

ChunkOptions(cfg) == [maxTokens |-> cfg.chunkMaxTokens, minTokens |-> cfg.chunkMinTokens]

RECURSIVE ChunkAll(_, _, _)
\* The chunks of the listed files, file after file.
ChunkAll(list, files, cfg) ==
    IF list = <<>> THEN <<>>
    ELSE chunkMarkdown(files[Head(list)], Head(list), ChunkOptions(cfg))
             \o ChunkAll(Tail(list), files, cfg)

HashAllMutant(list, files) ==
    [f \in {p \in DOMAIN files : files[p] # Absent} |-> hashFileContent(files[f])]

\* fileHashes[file] = hashFileContent(content), for every file found
HashAll(list, files) == [f \in Range(list) |-> hashFileContent(files[f])]

\* What buildIndex returns for the files found and their chunks; chunked
\* lists the files given to chunkMarkdown.
FullResult(found, allChunks, cfg, files) ==
    [summary    |-> [filesIndexed |-> Len(found), chunksCreated |-> Len(allChunks)],
     serialized |-> serializeIndex(indexChunks(createSearchIndex(cfg), allChunks),
                                   allChunks, HashAll(found, files), hashConfig(cfg)),
     chunked    |-> found]

buildIndex(cfg, files) ==
    LET found == findMarkdownFiles(cfg.paths, files)
    IN  FullResult(found, ChunkAll(found, files, cfg), cfg, files)

IsChangedMutant(f, oldFileHashes, newFileHashes) ==
    f \in DOMAIN oldFileHashes /\ oldFileHashes[f] = newFileHashes[f]

\* oldFileHashes[file] !== newFileHashes[file], for a file in oldFileHashes
IsChanged(f, oldFileHashes, newFileHashes) ==
    f \in DOMAIN oldFileHashes /\ oldFileHashes[f] # newFileHashes[f]

FilesToRemoveMutant(changedFiles, deletedFiles) == Range(changedFiles)

\* new Set([...changedFiles, ...deletedFiles])
FilesToRemove(changedFiles, deletedFiles) == Range(changedFiles) \cup deletedFiles

\* What buildIncrementalIndex returns once the files are classified and the
\* changed and added ones chunked; threw says that MiniSearch threw out of it.
IncrementalResult(cls, existingIndex, idsToDiscard, keptChunks, newChunks, newHashes, cfg) ==
    [threw      |-> \/ DiscardAllThrows(existingIndex, idsToDiscard)
                    \/ AddAllThrows(discardAll(existingIndex, idsToDiscard), newChunks),
     summary    |-> [filesIndexed  |-> Len(cls.found),
                     chunksCreated |-> Len(keptChunks \o newChunks),
                     unchanged     |-> Len(cls.unchanged),
                     added         |-> Len(cls.added),
                     changed       |-> Len(cls.changed),
                     removed       |-> Cardinality(cls.deleted)],
     serialized |-> serializeIndex(addAll(discardAll(existingIndex, idsToDiscard),
                                          newChunks),
                                   keptChunks \o newChunks, newHashes, hashConfig(cfg)),
     chunked    |-> cls.changed \o cls.added]

\* The files found, classified against the hashes of the old snapshot.
Classify(found, oldFileHashes, newFileHashes) ==
    [found     |-> found,
     added     |-> SelectSeq(found, LAMBDA f : f \notin DOMAIN oldFileHashes),
     changed   |-> SelectSeq(found, LAMBDA f : IsChanged(f, oldFileHashes, newFileHashes)),
     unchanged |-> SelectSeq(found, LAMBDA f :
                       /\ f \in DOMAIN oldFileHashes
                       /\ ~IsChanged(f, oldFileHashes, newFileHashes)),
     deleted   |-> {f \in DOMAIN oldFileHashes : f \notin Range(found)}]

buildIncrementalIndex(cfg, files, existingIndex, existingChunks, oldFileHashes) ==
    LET found         == findMarkdownFiles(cfg.paths, files)
        newFileHashes == HashAll(found, files)
        cls           == Classify(found, oldFileHashes, newFileHashes)
        filesToRemove == FilesToRemove(cls.changed, cls.deleted)
        discarded     == SelectSeq(existingChunks, LAMBDA c : c.file \in filesToRemove)
        idsToDiscard  == {discarded[i].id : i \in 1..Len(discarded)}
        keptChunks    == SelectSeq(existingChunks, LAMBDA c : c.file \notin filesToRemove)
    IN  IncrementalResult(cls, existingIndex, idsToDiscard, keptChunks,
                          ChunkAll(cls.changed \o cls.added, files, cfg),
                          newFileHashes, cfg)

\* The incremental result is written and returned unless something was thrown.
AfterIncremental(inc, cfg, files) ==
    IF ~inc.threw THEN inc ELSE buildIndex(cfg, files)

\* configHash === hashConfig(config)
SameConfig(prior, cfg) == prior.configHash = hashConfig(cfg)

AfterLoadMutant(prior, cfg, files) ==
    IF ~prior.ok
    THEN AfterIncremental(buildIncrementalIndex(cfg, files, {}, <<>>, <<>>), cfg, files)
    ELSE IF SameConfig(prior, cfg)
    THEN AfterIncremental(buildIncrementalIndex(cfg, files, prior.index, prior.chunks,
                                                prior.fileHashes), cfg, files)
    ELSE buildIndex(cfg, files)

\* The try block once the snapshot is read: a snapshot that does not load or
\* whose configuration hash differs is followed by a full rebuild.
AfterLoad(prior, cfg, files) ==
    IF prior.ok /\ SameConfig(prior, cfg)
    THEN AfterIncremental(buildIncrementalIndex(cfg, files, prior.index, prior.chunks,
                                                prior.fileHashes), cfg, files)
    ELSE buildIndex(cfg, files)

\* buildAndPersistIndex: the result whose summary it returns and whose
\* serialization it writes to the snapshot file.
buildAndPersistIndex(cfg, files, file, force) ==
    IF ~force /\ file.exists
    THEN AfterLoad(loadIndex(file.json, cfg), cfg, files)
    ELSE buildIndex(cfg, files)

-----------------------------------------------------------------------------
(* The coordinator as a state machine: files are written and deleted, the  *)
(* configuration is edited, the snapshot file is replaced from outside,    *)
(* and the index is built.  last holds what the build found and returned   *)
(* when the latest step was a build.                                       *)

NoFile == [exists |-> FALSE]

Written(json) == [exists |-> TRUE, json |-> json]

NoCall == [called |-> FALSE]

IdleChunker ==
    /\ content = EmptyStr
    /\ filePath = GuidePath
    /\ options = ChunkOptions(BaseConfig)
    /\ cpc = "idle"
    /\ sections = <<>>
    /\ merged = <<>>
    /\ final = <<>>
    /\ chunks = <<>>

InitIndexer ==
    /\ IdleChunker
    /\ fs = [p \in Range(AllPaths) |-> Absent]
    /\ config = BaseConfig
    /\ disk = NoFile
    /\ last = NoCall
    /\ loaded = <<>>
    /\ searchQuery = ""
    /\ searchOptions = <<>>
    /\ indexHits = <<>>
    /\ searchResults = <<>>
    /\ baselineResults = <<>>
    /\ IdleQuery

\* A file is created or its text replaced.
WriteFile(p, text) ==
    /\ fs[p] # text
    /\ fs' = [fs EXCEPT ![p] = text]
    /\ last' = NoCall
    /\ UNCHANGED <<config, disk, loaded, chunkerVars, searchVars>>
    /\ UNCHANGED queryVars
    /\ UNCHANGED rerankVars
    /\ UNCHANGED crawlVars

DeleteFile(p) ==
    /\ fs[p] # Absent
    /\ fs' = [fs EXCEPT ![p] = Absent]
    /\ last' = NoCall
    /\ UNCHANGED <<config, disk, loaded, chunkerVars, searchVars>>
    /\ UNCHANGED queryVars
    /\ UNCHANGED rerankVars
    /\ UNCHANGED crawlVars

\* .refdocs.json is edited.
EditConfig(cfg) ==
    /\ config # cfg
    /\ config' = cfg
    /\ last' = NoCall
    /\ UNCHANGED <<fs, disk, loaded, chunkerVars, searchVars>>
    /\ UNCHANGED queryVars
    /\ UNCHANGED rerankVars
    /\ UNCHANGED crawlVars

\* The snapshot file is one that another version of the program wrote.
StaleSnapshot(v) ==
    /\ disk.exists
    /\ disk.json.wellFormed
    /\ disk.json.data.version = INDEX_VERSION
    /\ disk' = Written([disk.json EXCEPT !.data.version = v])
    /\ last' = NoCall
    /\ UNCHANGED <<fs, config, loaded, chunkerVars, searchVars>>
    /\ UNCHANGED queryVars
    /\ UNCHANGED rerankVars
    /\ UNCHANGED crawlVars

\* The snapshot file is damaged: JSON.parse throws on it.
CorruptSnapshot ==
    /\ disk.exists
    /\ disk.json.wellFormed
    /\ disk' = Written([wellFormed |-> FALSE])
    /\ last' = NoCall
    /\ UNCHANGED <<fs, config, loaded, chunkerVars, searchVars>>
    /\ UNCHANGED queryVars
    /\ UNCHANGED rerankVars
    /\ UNCHANGED crawlVars

RemoveSnapshot ==
    /\ disk.exists
    /\ disk' = NoFile
    /\ last' = NoCall
    /\ UNCHANGED <<fs, config, loaded, chunkerVars, searchVars>>
    /\ UNCHANGED queryVars
    /\ UNCHANGED rerankVars
    /\ UNCHANGED crawlVars

\* How a build finds the snapshot file: missing, not loading (with the error
\* of loadIndex), of another configuration hash, or usable.
PriorSnapshot(file, cfg) ==
    IF ~file.exists THEN "missing"
    ELSE IF ~loadIndex(file.json, cfg).ok THEN loadIndex(file.json, cfg).error
    ELSE IF ~SameConfig(loadIndex(file.json, cfg), cfg) THEN "other configuration"
    ELSE "usable"

BuildAndPersistIndex(force) ==
    /\ \E r \in {buildAndPersistIndex(config, fs, disk, force)} :
           /\ disk' = Written(r.serialized)
           /\ last' = [called |-> TRUE, force |-> force,
                       prior |-> PriorSnapshot(disk, config),
                       summary |-> r.summary, chunked |-> r.chunked]
    /\ UNCHANGED <<fs, config, loaded, chunkerVars, searchVars>>
    /\ UNCHANGED queryVars
    /\ UNCHANGED rerankVars
    /\ UNCHANGED crawlVars

NextIndexer ==
    \/ \E p \in Range(AllPaths), text \in FileTexts : WriteFile(p, text)
    \/ \E p \in Range(AllPaths) : DeleteFile(p)
    \/ \E cfg \in Configs : EditConfig(cfg)
    \/ \E v \in {INDEX_VERSION - 1, INDEX_VERSION + 1} : StaleSnapshot(v)
    \/ CorruptSnapshot
    \/ RemoveSnapshot
    \/ \E force \in BOOLEAN : BuildAndPersistIndex(force)

SpecIndexer == InitIndexer /\ [][NextIndexer]_vars

-----------------------------------------------------------------------------
(* The query path's load as a state machine: a snapshot file is there, of  *)
(* this version or another, or damaged, or missing; loadPersistedIndex     *)
(* runs.                                                                   *)

loadPersistedIndexMutant(file, cfg) ==
    IF ~file.exists
    THEN [ok |-> FALSE, error |-> "ENOENT: no such file or directory"]
    ELSE loadIndex(file.json, cfg)

\* loadPersistedIndex(indexPath, config): what it returns, or the error it
\* throws (the command is between backquotes in the source).
loadPersistedIndex(file, cfg) ==
    IF ~file.exists
    THEN [ok |-> FALSE, error |-> "Index not found. Run 'refdocs index' first."]
    ELSE loadIndex(file.json, cfg)

\* The file at config.index is missing, or a damaged one, or the snapshot
\* buildIndex writes, or the same as another version of the program wrote it.
InitLoader ==
    /\ IdleChunker
    /\ fs \in [Range(AllPaths) -> FileTexts \cup {Absent}]
    /\ config \in Configs
    /\ disk \in {NoFile, Written([wellFormed |-> FALSE])}
                   \cup {Written([json EXCEPT !.data.version = v]) :
                            json \in {buildIndex(config, fs).serialized},
                            v \in (INDEX_VERSION - 1)..(INDEX_VERSION + 1)}
    /\ last = NoCall
    /\ loaded = <<>>
    /\ searchQuery = ""
    /\ searchOptions = <<>>
    /\ indexHits = <<>>
    /\ searchResults = <<>>
    /\ baselineResults = <<>>
    /\ IdleQuery

LoadPersistedIndex ==
    /\ loaded = <<>>
    /\ loaded' = <<loadPersistedIndex(disk, config)>>
    /\ UNCHANGED <<fs, config, disk, last, chunkerVars, searchVars>>
    /\ UNCHANGED queryVars
    /\ UNCHANGED rerankVars
    /\ UNCHANGED crawlVars

NextLoader == LoadPersistedIndex

SpecLoader == InitLoader /\ [][NextLoader]_vars

-----------------------------------------------------------------------------
(* Properties of the incremental build coordinator                         *)

Discovered == Range(findMarkdownFiles(config.paths, fs))

\* The snapshot file holds a snapshot that loads.
SnapshotLoads == disk.exists /\ loadIndex(disk.json, config).ok

\* The conditions of the incremental path: not forced, the prior snapshot
\* loads, its configuration hash is that of the current configuration.
IncrementalPath(force) ==
    /\ ~force
    /\ SnapshotLoads
    /\ disk.json.data.configHash = hashConfig(config)

\* The discovered files whose hash is the one the snapshot has for the path.
UnchangedFiles ==
    {f \in Discovered : /\ f \in DOMAIN disk.json.data.fileHashes
                        /\ disk.json.data.fileHashes[f] = hashFileContent(fs[f])}

ChangedFiles ==
    {f \in Discovered : /\ f \in DOMAIN disk.json.data.fileHashes
                        /\ disk.json.data.fileHashes[f] # hashFileContent(fs[f])}

AddedFiles == {f \in Discovered : f \notin DOMAIN disk.json.data.fileHashes}

RemovedFiles == {f \in DOMAIN disk.json.data.fileHashes : f \notin Discovered}

\* The passages chunkMarkdown makes of the current content of the files.
FreshPassages(list) ==
    UNION {Range(chunkMarkdown(fs[f], f, ChunkOptions(config))) : f \in list}

\* The passages of a snapshot that come from the files.
PassagesOf(snapshot, list) == {c \in Range(snapshot.chunks) : c.file \in list}

\* The step is a call of buildAndPersistIndex with the force flag.
Builds(force) ==
    /\ last'.called
    /\ last'.force = force
    /\ BuildAndPersistIndex(force)

\* C2: a build on the incremental path persists the old passages of the
\* unchanged files and the fresh passages of the changed and added files,
\* nothing of a removed file or of a changed file's old content; this is the
\* passage set of a full rebuild of the current corpus, each passage once, and
\* the set the persisted index searches.
C2_IncrementalEqualsFull ==
    [][\A force \in BOOLEAN :
          Builds(force) /\ IncrementalPath(force) =>
              /\ Range(disk'.json.data.chunks)
                     = PassagesOf(disk.json.data, UnchangedFiles)
                           \cup FreshPassages(ChangedFiles \cup AddedFiles)
              /\ PassagesOf(disk'.json.data, RemovedFiles) = {}
              /\ PassagesOf(disk'.json.data, ChangedFiles) = FreshPassages(ChangedFiles)
              /\ Range(disk'.json.data.chunks) = FreshPassages(Discovered)
              /\ Range(disk'.json.data.chunks)
                     = Range(buildIndex(config, fs).serialized.data.chunks)
              /\ Cardinality(Range(disk'.json.data.chunks)) = Len(disk'.json.data.chunks)
              /\ disk'.json.data.miniSearchIndex = Range(disk'.json.data.chunks)]_vars

IsIncrementalSummary(summary) ==
    {"unchanged", "added", "changed", "removed"} \subseteq DOMAIN summary

\* An incremental build has just replaced the passages of a changed file, kept
\* those of an unchanged one and dropped those of a removed one.
C2_Witness ==
    /\ last.called
    /\ ~last.force
    /\ IsIncrementalSummary(last.summary)
    /\ last.summary.changed = 1
    /\ last.summary.unchanged = 1
    /\ last.summary.removed = 1
    /\ last.summary.chunksCreated >= 3

\* C3: an incremental build reports as unchanged, changed and added the
\* discovered files whose hash is the snapshot's, differs from it, or is not in
\* the snapshot, and as removed the snapshot's paths no longer discovered; the
\* first three add up to filesIndexed; when no file differs from the snapshot
\* every file is unchanged and the passages and their count are those of the
\* snapshot.
C3_IncrementalCounts ==
    [][\A force \in BOOLEAN :
          Builds(force) /\ IncrementalPath(force) =>
              /\ IsIncrementalSummary(last'.summary)
              /\ last'.summary.unchanged = Cardinality(UnchangedFiles)
              /\ last'.summary.changed = Cardinality(ChangedFiles)
              /\ last'.summary.added = Cardinality(AddedFiles)
              /\ last'.summary.removed = Cardinality(RemovedFiles)
              /\ last'.summary.filesIndexed = Cardinality(Discovered)
              /\ last'.summary.unchanged + last'.summary.changed + last'.summary.added
                     = last'.summary.filesIndexed
              /\ (UnchangedFiles = Discovered /\ RemovedFiles = {} =>
                     /\ last'.summary.unchanged = Cardinality(Discovered)
                     /\ last'.summary.changed = 0
                     /\ last'.summary.added = 0
                     /\ last'.summary.removed = 0
                     /\ disk'.json.data.chunks = disk.json.data.chunks
                     /\ last'.summary.chunksCreated = Len(disk.json.data.chunks))]_vars

\* An incremental build has just found one file of each kind among the three
\* it discovered.
C3_Witness ==
    /\ last.called
    /\ last.prior = "usable"
    /\ IsIncrementalSummary(last.summary)
    /\ last.summary.filesIndexed = 3
    /\ last.summary.unchanged = 1
    /\ last.summary.changed = 1
    /\ last.summary.added = 1

\* The conditions of a full rebuild under a configuration.
FullCondition(force, cfg) ==
    \/ force
    \/ ~disk.exists
    \/ ~loadIndex(disk.json, cfg).ok
    \/ disk.json.data.configHash # hashConfig(cfg)

\* A build that returned call and left file was a full rebuild of the current
\* corpus: every discovered file was chunked, the snapshot is made of their
\* chunks alone, the summary has no incremental count.
IsFullRebuild(call, file) ==
    /\ call.called
    /\ DOMAIN call.summary \cap {"unchanged", "added", "changed", "removed"} = {}
    /\ call.chunked = findMarkdownFiles(config.paths, fs)
    /\ file = Written(buildIndex(config, fs).serialized)

FullyRebuilt == IsFullRebuild(last, disk)

OnlyPathsDiffer(cfg, other) ==
    cfg.paths # other.paths /\ [cfg EXCEPT !.paths = other.paths] = other

\* C4: a build is a full rebuild exactly when it is forced, or there is no
\* snapshot file, or the snapshot does not load, or its configuration hash is
\* not that of the current configuration, and is incremental otherwise; after
\* an edit of paths alone an unforced build is as incremental as before.
C4_FullRebuildIff ==
    [][/\ \A force \in BOOLEAN :
              Builds(force) =>
                  /\ IsFullRebuild(last', disk') <=> FullCondition(force, config)
                  /\ ~FullCondition(force, config) =>
                         /\ IsIncrementalSummary(last'.summary)
                         /\ Range(last'.chunked) = ChangedFiles \cup AddedFiles
       /\ \A cfg \in Configs :
              EditConfig(cfg) /\ OnlyPathsDiffer(config, cfg)
                      /\ ~FullCondition(FALSE, config)
                  => ~FullCondition(FALSE, cfg)]_vars

\* An unforced build has just rebuilt in full because the snapshot was of
\* another configuration hash.
C4_Witness ==
    /\ last.called
    /\ ~last.force
    /\ last.prior = "other configuration"
    /\ FullyRebuilt
    /\ last.summary.chunksCreated >= 2

\* The snapshot file does not load: it is missing, unparsable or of another
\* version.
LoadFailure ==
    \/ ~disk.exists
    \/ ~disk.json.wellFormed
    \/ disk.json.data.version # INDEX_VERSION

\* The file is a snapshot of this version of the current corpus under the
\* current configuration.
IsValidSnapshot(file) ==
    /\ file.exists
    /\ file.json.wellFormed
    /\ file.json.data.version = INDEX_VERSION
    /\ loadIndex(file.json, config).ok
    /\ file.json.data.chunks = ChunkAll(findMarkdownFiles(config.paths, fs), fs, config)
    /\ file.json.data.miniSearchIndex = Range(file.json.data.chunks)
    /\ DOMAIN file.json.data.fileHashes = Discovered
    /\ \A f \in Discovered : file.json.data.fileHashes[f] = hashFileContent(fs[f])
    /\ file.json.data.configHash = hashConfig(config)

ValidCurrentSnapshot == IsValidSnapshot(disk)

\* C5: a build that meets a snapshot file that does not load returns the
\* summary of a full rebuild, never an error, and leaves a valid snapshot of
\* the current version and corpus.
C5_LoadFailureRebuilds ==
    [][\A force \in BOOLEAN :
          Builds(force) /\ LoadFailure =>
              /\ DOMAIN last'.summary = {"filesIndexed", "chunksCreated"}
              /\ IsFullRebuild(last', disk')
              /\ IsValidSnapshot(disk')]_vars

\* An unforced build has just rebuilt a non-empty corpus over an unparsable
\* snapshot file.
C5_Witness ==
    /\ last.called
    /\ ~last.force
    /\ last.prior = "SyntaxError"
    /\ FullyRebuilt
    /\ ValidCurrentSnapshot
    /\ last.summary.chunksCreated >= 1

\* The place of a path in the sorted list of paths.
PathRank(p) == CHOOSE i \in 1..Len(AllPaths) : AllPaths[i] = p

\* The passages are grouped by file, the files in sorted path order, the
\* passages of one file numbered from 0 in the order they stand.
InPathOrder(cs) ==
    \A j \in 1..Len(cs) :
        /\ \A i \in 1..(j - 1) : PathRank(cs[i].file) <= PathRank(cs[j].file)
        /\ cs[j].id = PathString(cs[j].file) \o ":"
                          \o ToString(Cardinality({i \in 1..(j - 1) :
                                                       cs[i].file = cs[j].file}))

\* C26: after every build, full or incremental, the passage list of the
\* persisted snapshot is grouped by file, the files in sorted path order and
\* the passages of a file in id order, so that the list depends on the corpus
\* alone and not on the incremental updates that led to it.
C26_SnapshotInPathOrder ==
    last.called => InPathOrder(disk.json.data.chunks)

\* The files the build discovers: those that exist under a configured
\* directory.
FilesOnPaths == {p \in DOMAIN fs : fs[p] # Absent /\ p.dir \in Range(config.paths)}

\* C30: after any sequence of builds, full or incremental, forced or not,
\* among additions, edits and deletions of files, the persisted snapshot has
\* in its inverted index exactly the ids of its passage list, no two passages
\* of one id, as keys of its file-hash map exactly the files the build
\* discovered, each with the hash of its content, and no passage of a file
\* that is not a key of the file-hash map.
C30_SnapshotConsistent ==
    last.called =>
        /\ {doc.id : doc \in disk.json.data.miniSearchIndex}
               = {disk.json.data.chunks[i].id : i \in 1..Len(disk.json.data.chunks)}
        /\ \A i, j \in 1..Len(disk.json.data.chunks) :
               i # j => disk.json.data.chunks[i].id # disk.json.data.chunks[j].id
        /\ DOMAIN disk.json.data.fileHashes = FilesOnPaths
        /\ \A f \in FilesOnPaths :
               disk.json.data.fileHashes[f] = "sha256(" \o Flatten(fs[f]) \o ")"
        /\ \A i \in 1..Len(disk.json.data.chunks) :
               disk.json.data.chunks[i].file \in DOMAIN disk.json.data.fileHashes

\* An incremental build ran that found a file deleted and another changed or
\* added, left a file outside the configured directories alone, and wrote
\* passages.
C30_Witness ==
    /\ last.called
    /\ ~last.force
    /\ last.prior = "usable"
    /\ "removed" \in DOMAIN last.summary
    /\ last.summary.removed > 0
    /\ last.summary.changed + last.summary.added > 0
    /\ \E p \in DOMAIN fs : fs[p] # Absent /\ p \notin FilesOnPaths
    /\ Len(disk.json.data.chunks) > 0

-----------------------------------------------------------------------------
(* Properties of the snapshot load                                         *)

\* C6: loading a snapshot of another version gives the version mismatch error
\* that names the rebuild command, and nothing else; a snapshot of this
\* version loads, with the index, passages, chunk map and hashes it holds.
C6_VersionGate ==
    loaded # <<>> /\ disk.exists /\ disk.json.wellFormed =>
        /\ disk.json.data.version # INDEX_VERSION =>
               loaded[1] = [ok    |-> FALSE,
                            error |-> "Index version mismatch (found v"
                                          \o ToString(disk.json.data.version)
                                          \o ", expected v" \o ToString(INDEX_VERSION)
                                          \o "). Run 'refdocs index' to rebuild."]
        /\ disk.json.data.version = INDEX_VERSION =>
               /\ loaded[1].ok
               /\ loaded[1].index = disk.json.data.miniSearchIndex
               /\ loaded[1].chunks = disk.json.data.chunks
               /\ loaded[1].fileHashes = disk.json.data.fileHashes
               /\ loaded[1].configHash = disk.json.data.configHash
               /\ DOMAIN loaded[1].chunkMap
                      = {disk.json.data.chunks[i].id : i \in 1..Len(disk.json.data.chunks)}

\* A snapshot of the next version, holding passages, has been refused.
C6_Witness ==
    /\ loaded # <<>>
    /\ disk.exists
    /\ disk.json.wellFormed
    /\ disk.json.data.version = INDEX_VERSION + 1
    /\ Len(disk.json.data.chunks) >= 2
    /\ ~loaded[1].ok

-----------------------------------------------------------------------------
(* Query analysis (src/search.ts).  Here a string is a TLA+ string, read   *)
(* character by character.                                                 *)

CharAt(str, i) == SubSeq(str, i, i)

LowerCase == "abcdefghijklmnopqrstuvwxyz"

UpperCase == "ABCDEFGHIJKLMNOPQRSTUVWXYZ"

Lowers == {CharAt(LowerCase, i) : i \in 1..Len(LowerCase)}

Uppers == {CharAt(UpperCase, i) : i \in 1..Len(UpperCase)}

\* /[._/:[\]():-]/
Separators == {".", "_", "/", ":", "[", "]", "(", ")", "-"}

\* The class [a-z0-9_./[\]():-] of tokenizeWords.
WordChars ==
    Lowers \cup {"0", "1", "2", "3", "4", "5", "6", "7", "8", "9"} \cup Separators

\* The class [A-Za-z0-9_./[\]():-] of extractSymbols.
SymbolChars == WordChars \cup Uppers

LowerOf(ch) ==
    IF ch \in Uppers
    THEN CharAt(LowerCase, CHOOSE i \in 1..Len(UpperCase) : CharAt(UpperCase, i) = ch)
    ELSE ch

RECURSIVE normalizeText(_)
\* text.toLowerCase()
normalizeText(text) ==
    IF text = "" THEN ""
    ELSE LowerOf(Head(text)) \o normalizeText(Tail(text))

\* text.includes(part)
Includes(text, part) ==
    \E i \in 1..(Len(text) - Len(part) + 1) : SubSeq(text, i, i + Len(part) - 1) = part

RECURSIVE RunEnd(_, _, _)
\* The end of the longest run of characters of the class that starts at i.
RunEnd(str, i, class) ==
    IF i <= Len(str) /\ CharAt(str, i) \in class THEN RunEnd(str, i + 1, class) ELSE i - 1

RECURSIVE Runs(_, _, _)
\* The maximal runs of characters of the class in str from i on, in order.
Runs(str, i, class) ==
    IF i > Len(str) THEN <<>>
    ELSE IF CharAt(str, i) \notin class THEN Runs(str, i + 1, class)
    ELSE <<SubSeq(str, i, RunEnd(str, i, class))>>
             \o Runs(str, RunEnd(str, i, class) + 1, class)

\* normalizeText(text).split(/[^a-z0-9_./[\]():-]+/g).filter(Boolean)
tokenizeWords(text) == Runs(normalizeText(text), 1, WordChars)

RECURSIVE Unique(_)
\* [...new Set(list)]: the first occurrence of each element, in order.
Unique(list) ==
    IF list = <<>> THEN <<>>
    ELSE LET front == Unique(SubSeq(list, 1, Len(list) - 1))
         IN  IF list[Len(list)] \in Range(front) THEN front
             ELSE Append(front, list[Len(list)])

\* list.slice(0, n)
Slice(list, n) == SubSeq(list, 1, IF n < Len(list) THEN n ELSE Len(list))

DEFAULT_STOP_WORDS ==
    {"a", "an", "and", "are", "as", "at", "be", "by", "for", "from", "how", "in",
     "is", "it", "of", "on", "or", "that", "the", "this", "to", "what", "when",
     "where", "which", "with"}

MinWordLength == 3

MaxFacets == 16

MaxSymbols == 12

\* /[._/:[\]():-]/.test(token)
hasSeparator(token) == \E i \in 1..Len(token) : CharAt(token, i) \in Separators

\* /[a-z][A-Z]/.test(token)
hasCamelCase(token) ==
    \E i \in 1..(Len(token) - 1) :
        CharAt(token, i) \in Lowers /\ CharAt(token, i + 1) \in Uppers

\* raw is query.match(/[A-Za-z0-9_./[\]():-]{3,}/g) ?? [], the runs of three
\* symbol characters or more; the symbols are the raw tokens with a separator
\* or a camel case, in lower case, each once.
extractSymbols(query) ==
    LET raw == SelectSeq(Runs(query, 1, SymbolChars),
                         LAMBDA token : Len(token) >= MinWordLength)
        kept == SelectSeq(raw, LAMBDA token : hasSeparator(token) \/ hasCamelCase(token))
    IN  Unique([i \in 1..Len(kept) |-> normalizeText(kept[i])])

IsFacet(word) == Len(word) >= MinWordLength /\ word \notin DEFAULT_STOP_WORDS

buildQuerySignals(query) ==
    [facets  |-> Slice(Unique(SelectSeq(tokenizeWords(query), IsFacet)), MaxFacets),
     symbols |-> Slice(extractSymbols(query), MaxSymbols)]

-----------------------------------------------------------------------------
(* Scores are exact fractions [n, d] in lowest terms, d > 0; the program   *)
(* computes them in double precision.                                      *)

RECURSIVE Gcd(_, _)
\* The greatest common divisor of a and b, for b >= 0 and not both 0.
Gcd(a, b) == IF b = 0 THEN (IF a < 0 THEN -a ELSE a) ELSE Gcd(b, a % b)

\* n / d for integers n and d > 0; Frac(n, 1) is the integer n.
Frac(n, d) == [n |-> n \div Gcd(n, d), d |-> d \div Gcd(n, d)]

Plus(x, y) ==
    Frac(x.n * (y.d \div Gcd(x.d, y.d)) + y.n * (x.d \div Gcd(x.d, y.d)),
         (x.d \div Gcd(x.d, y.d)) * y.d)

Minus(x, y) == Plus(x, [n |-> -y.n, d |-> y.d])

Times(x, y) ==
    Frac((x.n \div Gcd(x.n, y.d)) * (y.n \div Gcd(y.n, x.d)),
         (x.d \div Gcd(y.n, x.d)) * (y.d \div Gcd(x.n, y.d)))

\* x / y, for y > 0
Over(x, y) == Times(x, [n |-> y.d, d |-> y.n])

Less(x, y) ==
    x.n * (y.d \div Gcd(x.d, y.d)) < y.n * (x.d \div Gcd(x.d, y.d))

Least(x, y) == IF Less(y, x) THEN y ELSE x

Greatest(x, y) == IF Less(x, y) THEN y ELSE x

-----------------------------------------------------------------------------
(* search and searchBaseline (src/search.ts)                               *)

RERANK_POOL_MULTIPLIER == 6

RERANK_POOL_MIN == 20

BaseWeight == 66

FacetWeight == 20

SymbolWeight == 14

TokenWeight == 8

TokenPenaltyScale == 500

FacetGainWeight == 50

SymbolGainWeight == 35

EfficiencyWeight == 18

OverlapWeight == 22

SameFileWeight == 8

EfficiencyTokens == 80

MaxSignatureTokens == 32

RECURSIVE SplitOn(_, _, _)
\* str.split(sep): the pieces of str from i on.
SplitOn(str, sep, i) ==
    IF \E j \in i..(Len(str) - Len(sep) + 1) : SubSeq(str, j, j + Len(sep) - 1) = sep
    THEN LET j == CHOOSE k \in i..(Len(str) - Len(sep) + 1) :
                      /\ SubSeq(str, k, k + Len(sep) - 1) = sep
                      /\ \A m \in i..(k - 1) : SubSeq(str, m, m + Len(sep) - 1) # sep
         IN  <<SubSeq(str, i, j - 1)>> \o SplitOn(str, sep, j + Len(sep))
    ELSE <<SubSeq(str, i, Len(str))>>

toSearchResult(entry) ==
    [score         |-> entry.searchResult.score,
     file          |-> entry.chunk.file,
     lines         |-> <<entry.chunk.startLine, entry.chunk.endLine>>,
     headings      |-> SplitOn(entry.chunk.headings, " > ", 1),
     body          |-> entry.chunk.body,
     tokenEstimate |-> entry.chunk.tokenEstimate]

\* picomatch(fileFilter)(file), for the globs of the model: dir/** matches
\* the files under dir, **/*.ext the files of that extension.
isMatch(fileFilter, file) ==
    IF Len(fileFilter) > 3 /\ SubSeq(fileFilter, Len(fileFilter) - 2, Len(fileFilter)) = "/**"
    THEN /\ Len(file) >= Len(fileFilter) - 2
         /\ SubSeq(file, 1, Len(fileFilter) - 2) = SubSeq(fileFilter, 1, Len(fileFilter) - 2)
    ELSE IF Len(fileFilter) > 4 /\ SubSeq(fileFilter, 1, 4) = "**/*"
    THEN /\ Len(file) >= Len(fileFilter) - 4
         /\ SubSeq(file, Len(file) - Len(fileFilter) + 5, Len(file))
                = SubSeq(fileFilter, 5, Len(fileFilter))
    ELSE file = fileFilter

RECURSIVE Enrich(_, _)
\* results.map(...).filter(e => e !== null): the hits whose chunk is known.
Enrich(results, chunkMap) ==
    IF results = <<>> THEN <<>>
    ELSE (IF Head(results).id \in DOMAIN chunkMap
          THEN <<[searchResult |-> [id |-> Head(results).id, score |-> Head(results).score],
                  chunk |-> chunkMap[Head(results).id]]>>
          ELSE <<>>) \o Enrich(Tail(results), chunkMap)

\* searchEnriched; results is what index.search(query) returns.
searchEnriched(results, chunkMap, fileFilter) ==
    IF fileFilter = "" THEN Enrich(results, chunkMap)
    ELSE SelectSeq(Enrich(results, chunkMap), LAMBDA e : isMatch(fileFilter, e.chunk.file))

searchBaselineMutant(results, chunkMap, query, opts) ==
    LET enriched == searchEnriched(Slice(results, opts.maxResults), chunkMap, opts.fileFilter)
    IN  [i \in 1..Len(enriched) |-> toSearchResult(enriched[i])]

searchBaseline(results, chunkMap, query, opts) ==
    LET enriched == searchEnriched(results, chunkMap, opts.fileFilter)
    IN  [i \in 1..Len(Slice(enriched, opts.maxResults)) |-> toSearchResult(enriched[i])]

RECURSIVE MaxScoreMutant(_, _)
MaxScoreMutant(entries, floor) ==
    IF Len(entries) = 1 THEN Head(entries).searchResult.score
    ELSE IF entries = <<>> THEN floor
    ELSE Greatest(Head(entries).searchResult.score, MaxScoreMutant(Tail(entries), floor))

RECURSIVE MaxScore(_, _)
\* Math.max(...scores, floor)
MaxScore(entries, floor) ==
    IF entries = <<>> THEN floor
    ELSE MaxScore(Tail(entries), Greatest(floor, Head(entries).searchResult.score))

\* The facets or symbols the text includes.
Hits(list, text) == {list[i] : i \in {j \in 1..Len(list) : Includes(text, list[j])}}

\* hits.size / list.length, or 0 for an empty list
Coverage(hits, list) == IF Len(list) > 0 THEN Frac(hits, Len(list)) ELSE Frac(0, 1)

RECURSIVE SignatureFrom(_, _)
\* buildSignatureTokenSet: the tokens are taken in order until the set has 32.
SignatureFrom(tokens, set) ==
    IF tokens = <<>> THEN set
    ELSE IF Cardinality(IF IsFacet(Head(tokens)) THEN set \cup {Head(tokens)} ELSE set)
                >= MaxSignatureTokens
         THEN (IF IsFacet(Head(tokens)) THEN set \cup {Head(tokens)} ELSE set)
         ELSE SignatureFrom(Tail(tokens),
                            IF IsFacet(Head(tokens)) THEN set \cup {Head(tokens)} ELSE set)

buildSignatureTokenSet(chunk) ==
    SignatureFrom(tokenizeWords(chunk.file \o " " \o chunk.title \o " " \o chunk.headings), {})

staticRelevance(normalizedBaseScore, facetCoverage, symbolCoverage, tokenPenalty) ==
    Minus(Plus(Plus(Times(normalizedBaseScore, Frac(BaseWeight, 100)),
                    Times(facetCoverage, Frac(FacetWeight, 100))),
               Times(symbolCoverage, Frac(SymbolWeight, 100))),
          Times(tokenPenalty, Frac(TokenWeight, 100)))

\* One candidate of buildCandidates; text is file, headings, title and body
\* on a line each, in lower case.
Candidate(entry, signals, maxBase, text) ==
    [chunk           |-> entry.chunk,
     result          |-> toSearchResult(entry),
     staticRelevance |->
         staticRelevance(Over(entry.searchResult.score, maxBase),
                         Coverage(Cardinality(Hits(signals.facets, text)), signals.facets),
                         Coverage(Cardinality(Hits(signals.symbols, text)), signals.symbols),
                         Least(Frac(1, 1),
                               Frac(entry.chunk.tokenEstimate, TokenPenaltyScale))),
     matchedFacets   |-> Hits(signals.facets, text),
     matchedSymbols  |-> Hits(signals.symbols, text),
     signatureTokens |-> buildSignatureTokenSet(entry.chunk)]

buildCandidates(enriched, query) ==
    LET signals == buildQuerySignals(query)
        maxBase == MaxScore(enriched, Frac(1, 1))
    IN  [i \in 1..Len(enriched) |->
            Candidate(enriched[i], signals, maxBase,
                      normalizeText(enriched[i].chunk.file \o "\n"
                                        \o enriched[i].chunk.headings \o "\n"
                                        \o enriched[i].chunk.title \o "\n"
                                        \o enriched[i].chunk.body))]

\* The number of values not yet covered.
countNewHits(values, covered) == Cardinality(values \ covered)

jaccard(left, right) ==
    IF left = {} \/ right = {} THEN Frac(0, 1)
    ELSE Frac(Cardinality(left \cap right), Cardinality(left \cup right))

RECURSIVE maxSimilarity(_, _)
\* The greatest overlap with a selected candidate, 0 when none is selected.
maxSimilarity(candidate, selected) ==
    IF selected = <<>> THEN Frac(0, 1)
    ELSE Greatest(jaccard(candidate.signatureTokens, Head(selected).signatureTokens),
                  maxSimilarity(candidate, Tail(selected)))

\* newFacetHits + newSymbolHits * 1.5
marginalHits(newFacetHits, newSymbolHits) == Frac(2 * newFacetHits + 3 * newSymbolHits, 2)

\* Math.min(1, (marginalHits * 80) / Math.max(80, tokenEstimate || 1))
tokenEfficiency(hitCount, tokens) ==
    Least(Frac(1, 1),
          Over(Times(hitCount, Frac(EfficiencyTokens, 1)),
               Frac(IF tokens > EfficiencyTokens THEN tokens ELSE EfficiencyTokens, 1)))

MarginalScoreMutant(candidate, selected, coveredFacets, coveredSymbols, signals) ==
    Minus(Plus(Plus(Plus(Plus(candidate.staticRelevance,
                               Times(Coverage(countNewHits(candidate.matchedFacets,
                                                           coveredFacets),
                                              signals.facets),
                                     Frac(FacetGainWeight, 100))),
                          Times(Coverage(countNewHits(candidate.matchedSymbols,
                                                      coveredSymbols),
                                         signals.symbols),
                                Frac(SymbolGainWeight, 100))),
                     Times(tokenEfficiency(
                               marginalHits(countNewHits(candidate.matchedFacets,
                                                         coveredFacets),
                                            countNewHits(candidate.matchedSymbols,
                                                         coveredSymbols)),
                               candidate.chunk.tokenEstimate),
                           Frac(EfficiencyWeight, 100))),
                Times(maxSimilarity(candidate, selected), Frac(OverlapWeight, 100))),
          IF \E i \in 1..Len(selected) : selected[i].chunk.file = candidate.chunk.file
          THEN Frac(SameFileWeight, 100) ELSE Frac(0, 1))

\* The score of a remaining candidate in one round of the selection.
MarginalScore(candidate, selected, coveredFacets, coveredSymbols, signals) ==
    Minus(Minus(Plus(Plus(Plus(candidate.staticRelevance,
                               Times(Coverage(countNewHits(candidate.matchedFacets,
                                                           coveredFacets),
                                              signals.facets),
                                     Frac(FacetGainWeight, 100))),
                          Times(Coverage(countNewHits(candidate.matchedSymbols,
                                                      coveredSymbols),
                                         signals.symbols),
                                Frac(SymbolGainWeight, 100))),
                     Times(tokenEfficiency(
                               marginalHits(countNewHits(candidate.matchedFacets,
                                                         coveredFacets),
                                            countNewHits(candidate.matchedSymbols,
                                                         coveredSymbols)),
                               candidate.chunk.tokenEstimate),
                           Frac(EfficiencyWeight, 100))),
                Times(maxSimilarity(candidate, selected), Frac(OverlapWeight, 100))),
          IF \E i \in 1..Len(selected) : selected[i].chunk.file = candidate.chunk.file
          THEN Frac(SameFileWeight, 100) ELSE Frac(0, 1))

BetterMutant(score, bestScore) == ~Less(score, bestScore)

\* score > bestScore
Better(score, bestScore) == Less(bestScore, score)

RECURSIVE Scan(_, _, _)
\* The inner loop from index i on: the first candidate is better than the
\* initial bestScore of minus infinity, a later one replaces the best when
\* its score is greater.
Scan(scores, i, bestIndex) ==
    IF i > Len(scores) THEN bestIndex
    ELSE Scan(scores, i + 1, IF Better(scores[i], scores[bestIndex]) THEN i ELSE bestIndex)

SelectNoSpliceMutant(st, scores, bestIndex) ==
    [remaining      |-> st.remaining,
     selected       |-> Append(st.selected, [st.remaining[bestIndex] EXCEPT
                                                !.result.score = scores[bestIndex]]),
     coveredFacets  |-> st.coveredFacets \cup st.remaining[bestIndex].matchedFacets,
     coveredSymbols |-> st.coveredSymbols \cup st.remaining[bestIndex].matchedSymbols]

SelectMutant(st, scores, bestIndex) ==
    [remaining      |-> SubSeq(st.remaining, 1, bestIndex - 1)
                            \o SubSeq(st.remaining, bestIndex + 1, Len(st.remaining)),
     selected       |-> Append(st.selected, st.remaining[bestIndex]),
     coveredFacets  |-> st.coveredFacets \cup st.remaining[bestIndex].matchedFacets,
     coveredSymbols |-> st.coveredSymbols \cup st.remaining[bestIndex].matchedSymbols]

\* The end of a round, with the scores of the remaining candidates and the
\* index of the best: the best leaves remaining (remaining.splice(bestIndex,
\* 1)) and is selected with its score.
Select(st, scores, bestIndex) ==
    [remaining      |-> SubSeq(st.remaining, 1, bestIndex - 1)
                            \o SubSeq(st.remaining, bestIndex + 1, Len(st.remaining)),
     selected       |-> Append(st.selected, [st.remaining[bestIndex] EXCEPT
                                                !.result.score = scores[bestIndex]]),
     coveredFacets  |-> st.coveredFacets \cup st.remaining[bestIndex].matchedFacets,
     coveredSymbols |-> st.coveredSymbols \cup st.remaining[bestIndex].matchedSymbols]

\* One round of the while loop: every remaining candidate is scored and the
\* best is selected.
Round(st, signals) ==
    LET scores == [i \in 1..Len(st.remaining) |->
                      MarginalScore(st.remaining[i], st.selected, st.coveredFacets,
                                    st.coveredSymbols, signals)]
    IN  Select(st, scores, Scan(scores, 2, 1))

RECURSIVE SelectLoop(_, _, _)
\* while (selected.length < maxResults && remaining.length > 0)
SelectLoop(st, maxResults, signals) ==
    IF Len(st.selected) < maxResults /\ Len(st.remaining) > 0
    THEN SelectLoop(Round(st, signals), maxResults, signals)
    ELSE st.selected

NoSignalsMutant(signals) == FALSE

\* signals.facets.length === 0 && signals.symbols.length === 0
NoSignals(signals) == Len(signals.facets) = 0 /\ Len(signals.symbols) = 0

rerankCandidates(candidates, maxResults, query) ==
    IF Len(candidates) <= 1 THEN Slice(candidates, maxResults)
    ELSE IF NoSignals(buildQuerySignals(query)) THEN Slice(candidates, maxResults)
    ELSE SelectLoop([remaining |-> candidates, selected |-> <<>>,
                     coveredFacets |-> {}, coveredSymbols |-> {}],
                    maxResults, buildQuerySignals(query))

PoolSizeMutant(maxResults) == maxResults * RERANK_POOL_MULTIPLIER + RERANK_POOL_MIN

\* Math.max(maxResults * RERANK_POOL_MULTIPLIER, RERANK_POOL_MIN)
PoolSize(maxResults) ==
    IF maxResults * RERANK_POOL_MULTIPLIER > RERANK_POOL_MIN
    THEN maxResults * RERANK_POOL_MULTIPLIER ELSE RERANK_POOL_MIN

\* search; results is what index.search(query) returns.
search(results, chunkMap, query, opts) ==
    LET enriched == searchEnriched(results, chunkMap, opts.fileFilter)
        candidates == buildCandidates(Slice(enriched, PoolSize(opts.maxResults)), query)
        reranked == rerankCandidates(candidates, opts.maxResults, query)
    IN  IF Len(enriched) = 0 THEN <<>>
        ELSE [i \in 1..Len(reranked) |-> reranked[i].result]

-----------------------------------------------------------------------------
(* search as a state machine: an index answers a query with hits, search   *)
(* and searchBaseline run on them.                                         *)

\* A chunk as makeChunk makes it, for texts given as strings; tokenEstimate
\* is estimateTokens(body), Math.ceil(body.length / 4).
StoredChunk(file, index, title, headings, body, startLine, endLine) ==
    [id |-> file \o ":" \o ToString(index), file |-> file, title |-> title,
     headings |-> headings, body |-> body, startLine |-> startLine, endLine |-> endLine,
     tokenEstimate |-> (Len(body) + 3) \div 4]

\* More passages of one file than the rerank pool ever holds.
BulkPassages ==
    [i \in 1..(RERANK_POOL_MIN + 2) |->
        StoredChunk("docs/bulk.md", i - 1, "Bulk", "Bulk", "bulk token " \o ToString(i),
                    10 * i, 10 * i + 5)]

\* Two passages of one file, one of a file without headings, one of a third
\* file.
FewPassages ==
    <<StoredChunk("docs/auth.md", 0, "Tokens", "Auth > Tokens", "call getToken first", 3, 5),
      StoredChunk("docs/auth.md", 1, "Refresh", "Auth > Refresh", "refresh the token", 7, 9),
      StoredChunk("notes/faq.txt", 0, "faq", "faq", "see docs/auth.md for tokens", 1, 1),
      StoredChunk("docs/setup.md", 0, "Setup", "Setup", "install and run this", 1, 3)>>

\* The chunk map of the loaded snapshot.
ChunkMap == buildChunkMap(FewPassages \o BulkPassages)

MaxHits == 3

MaxResults == 3

\* The answers of index.search, distinct passages with the best score first
\* (the scores are positive, one below the floor of maxBase):
\* the short ones, and two longer than the rerank pool, every passage of the
\* large file at one score, alone or before a passage of another file.
HitLists(maxLen) ==
    {h \in UNION {[1..n -> [id : {FewPassages[i].id : i \in 1..Len(FewPassages)},
                            score : {Frac(1, 2), Frac(2, 1)}]] : n \in 0..maxLen} :
        /\ \A i, j \in 1..Len(h) : i < j => h[i].id # h[j].id
        /\ \A i \in 1..(Len(h) - 1) : ~Less(h[i].score, h[i + 1].score)}
    \cup {[i \in 1..Len(BulkPassages) |-> [id |-> BulkPassages[i].id, score |-> Frac(2, 1)]]
              \o rest : rest \in {<<>>, <<[id |-> FewPassages[1].id, score |-> Frac(1, 2)]>>}}

\* The queries are without facet or symbol (empty, stop words, short words,
\* upper case stop words), with facets only, with symbols, with a symbol only.
InitSearch ==
    /\ IdleChunker
    /\ fs = [p \in Range(AllPaths) |-> Absent]
    /\ config = BaseConfig
    /\ disk = NoFile
    /\ last = NoCall
    /\ loaded = <<>>
    /\ searchQuery \in {"", "the a of", "is it ok", "THE AND", "token", "getToken",
                        "auth.md refresh", "tokens setup token", "tHis"}
    /\ searchOptions \in [maxResults : 1..MaxResults, fileFilter : {"", "docs/**"}]
    /\ indexHits \in HitLists(MaxHits)
    /\ searchResults = <<>>
    /\ baselineResults = <<>>
    /\ IdleQuery

Search ==
    /\ searchResults = <<>>
    /\ searchResults' = <<search(indexHits, ChunkMap, searchQuery,
                                  searchOptions)>>
    /\ UNCHANGED <<searchQuery, searchOptions, indexHits, baselineResults, chunkerVars,
                   indexerVars>>
    /\ UNCHANGED queryVars
    /\ UNCHANGED rerankVars
    /\ UNCHANGED crawlVars

SearchBaseline ==
    /\ baselineResults = <<>>
    /\ baselineResults' = <<searchBaseline(indexHits, ChunkMap, searchQuery,
                                            searchOptions)>>
    /\ UNCHANGED <<searchQuery, searchOptions, indexHits, searchResults, chunkerVars,
                   indexerVars>>
    /\ UNCHANGED queryVars
    /\ UNCHANGED rerankVars
    /\ UNCHANGED crawlVars

NextSearch == Search \/ SearchBaseline

SpecSearch == InitSearch /\ [][NextSearch]_vars

-----------------------------------------------------------------------------
(* Properties of search                                                    *)

\* The hits that searchBaseline and search start from.
FilteredHits ==
    searchEnriched(indexHits, ChunkMap, searchOptions.fileFilter)

\* C7: for a query that yields no facet and no symbol, search returns the
\* list searchBaseline returns, the same passages in the same order with the
\* same scores: the first maxResults of the filtered hits.
C7_NoSignalsIsBaseline ==
    /\ searchResults # <<>>
    /\ baselineResults # <<>>
    /\ Len(buildQuerySignals(searchQuery).facets) = 0
    /\ Len(buildQuerySignals(searchQuery).symbols) = 0
    => /\ searchResults[1] = baselineResults[1]
       /\ Len(searchResults[1]) = IF searchOptions.maxResults < Len(FilteredHits)
                                  THEN searchOptions.maxResults ELSE Len(FilteredHits)
       /\ \A i \in 1..Len(searchResults[1]) :
              /\ searchResults[1][i].score = FilteredHits[i].searchResult.score
              /\ searchResults[1][i].file = FilteredHits[i].chunk.file
              /\ searchResults[1][i].body = FilteredHits[i].chunk.body

\* A query of stop words has been answered both ways from more hits than
\* the rerank pool holds, of which two are asked for.
C7_Witness ==
    /\ searchQuery = "the a of"
    /\ searchOptions.maxResults = 2
    /\ Len(FilteredHits) > PoolSize(searchOptions.maxResults)
    /\ searchResults # <<>>
    /\ baselineResults # <<>>
    /\ Len(searchResults[1]) = 2

\* The raw hits that pass the file filter: all of them without a glob, those
\* whose passage is of a matching file with one.
MatchingHits ==
    {i \in 1..Len(indexHits) :
        \/ searchOptions.fileFilter = ""
        \/ isMatch(searchOptions.fileFilter, ChunkMap[indexHits[i].id].file)}

\* The list has min(maxResults, number of matching raw hits) results, each of
\* a file that matches the glob when there is one.
FilteredThenCut(results) ==
    /\ Len(results) = IF searchOptions.maxResults < Cardinality(MatchingHits)
                      THEN searchOptions.maxResults ELSE Cardinality(MatchingHits)
    /\ searchOptions.fileFilter # "" =>
           \A i \in 1..Len(results) : isMatch(searchOptions.fileFilter, results[i].file)

\* C16: search and searchBaseline return only results of files that match the
\* glob, and filter before they truncate: the number of results is
\* min(maxResults, number of raw hits of a matching file), so no matching hit
\* is lost to hits of other files ranked above it; without a glob it is
\* min(maxResults, number of raw hits).
C16_FilterBeforeTruncation ==
    /\ searchResults # <<>> => FilteredThenCut(searchResults[1])
    /\ baselineResults # <<>> => FilteredThenCut(baselineResults[1])

\* Both searches ran with a glob and maxResults = 1 on hits whose best is of a
\* file outside the glob and whose second is of a file inside it.
C16_Witness ==
    /\ searchResults # <<>>
    /\ baselineResults # <<>>
    /\ searchOptions = [maxResults |-> 1, fileFilter |-> "docs/**"]
    /\ Len(indexHits) >= 2
    /\ ChunkMap[indexHits[1].id].file = "notes/faq.txt"
    /\ Len(searchResults[1]) = 1
    /\ Len(baselineResults[1]) = 1

-----------------------------------------------------------------------------
(* The search command (src/index.ts): resolveIndexSources loads the local  *)
(* snapshot and, under a global configuration, the global one;             *)
(* searchAllIndexes searches every source and merges the results.          *)

\* The passages of the global snapshot; one is of a path the local snapshot
\* has too.
GlobalPassages ==
    <<StoredChunk("docs/auth.md", 0, "Login", "Auth > Login", "global token login", 2, 4),
      StoredChunk("api/rate.md", 0, "Rate", "Rate", "rate limit tokens", 1, 2)>>

\* What may be at the path of a snapshot: nothing, a damaged file, or the
\* snapshot of the passages as this or another version of the program wrote it.
SnapshotFiles(cs) ==
    {NoFile, Written([wellFormed |-> FALSE])}
        \cup {Written([json EXCEPT !.data.version = v]) :
                 json \in {serializeIndex(indexChunks(createSearchIndex(BaseConfig), cs), cs,
                                          <<>>, hashConfig(BaseConfig))},
                 v \in (INDEX_VERSION - 1)..(INDEX_VERSION + 1)}

MaxSourceHits == 2

\* The answers of index.search for the index of a snapshot file: passages of
\* the index, each once, the best score first; none when the file gives no
\* index.
SourceHits(file, cfg, maxLen) ==
    IF ~loadPersistedIndex(file, cfg).ok THEN {<<>>}
    ELSE {h \in UNION {[1..n -> [id : {doc.id : doc \in loadPersistedIndex(file, cfg).index},
                                 score : {Frac(1, 2), Frac(2, 1)}]] : n \in 0..maxLen} :
             /\ \A i, j \in 1..Len(h) : i < j => h[i].id # h[j].id
             /\ \A i \in 1..(Len(h) - 1) : ~Less(h[i].score, h[i + 1].score)}

\* resolveIndexSources: the local index when loadPersistedIndex returns it,
\* then the global one when there is a global configuration, its snapshot
\* file exists and loads; a load that throws is skipped.
resolveIndexSources(localFile, cfg, global) ==
    (IF loadPersistedIndex(localFile, cfg).ok
     THEN <<[label |-> "", index |-> loadPersistedIndex(localFile, cfg).index,
             chunkMap |-> loadPersistedIndex(localFile, cfg).chunkMap]>>
     ELSE <<>>)
    \o (IF /\ global.configured
           /\ global.file.exists
           /\ loadPersistedIndex(global.file, global.config).ok
        THEN <<[label |-> "[global] ",
                index |-> loadPersistedIndex(global.file, global.config).index,
                chunkMap |-> loadPersistedIndex(global.file, global.config).chunkMap]>>
        ELSE <<>>)

RECURSIVE SortByScore(_)
\* list.sort((a, b) => b.score - a.score): stable, the best score first.
SortByScore(list) ==
    IF list = <<>> THEN <<>>
    ELSE LET rest == SortByScore(SubSeq(list, 1, Len(list) - 1))
             k == Cardinality({i \in 1..Len(rest) :
                                  ~Less(rest[i].score, list[Len(list)].score)})
         IN  SubSeq(rest, 1, k) \o <<list[Len(list)]>> \o SubSeq(rest, k + 1, Len(rest))

RECURSIVE AllResults(_, _, _, _, _)
\* The loop of searchAllIndexesWith: the results of searchFn on each source,
\* the label of the source put before the file of each of its results.
\* answers[index] is what index.search(query) returns.
AllResults(srcs, query, opts, searchFn, answers) ==
    IF srcs = <<>> THEN <<>>
    ELSE LET source == Head(srcs)
             results == IF searchFn = "search"
                        THEN search(answers[source.index], source.chunkMap, query, opts)
                        ELSE searchBaseline(answers[source.index], source.chunkMap, query, opts)
         IN  [i \in 1..Len(results) |->
                 IF source.label # ""
                 THEN [results[i] EXCEPT !.file = source.label \o results[i].file]
                 ELSE results[i]]
             \o AllResults(Tail(srcs), query, opts, searchFn, answers)

searchAllIndexesWithMutant(srcs, query, opts, searchFn, answers) ==
    IF Len(srcs) = 0
    THEN [ok |-> FALSE, error |-> "Index not found. Run 'refdocs index' first."]
    ELSE [ok |-> TRUE,
          results |-> Slice(AllResults(srcs, query, opts, searchFn, answers),
                            opts.maxResults)]

\* searchAllIndexesWith: what it returns, or the error it throws (the command
\* is between backquotes in the source).
searchAllIndexesWith(srcs, query, opts, searchFn, answers) ==
    IF Len(srcs) = 0
    THEN [ok |-> FALSE, error |-> "Index not found. Run 'refdocs index' first."]
    ELSE [ok |-> TRUE,
          results |-> Slice(SortByScore(AllResults(srcs, query, opts, searchFn, answers)),
                            opts.maxResults)]

searchAllIndexes(srcs, query, opts, answers) ==
    searchAllIndexesWith(srcs, query, opts, "search", answers)

searchAllIndexesBaseline(srcs, query, opts, answers) ==
    searchAllIndexesWith(srcs, query, opts, "searchBaseline", answers)

\* The local snapshot file and the global configuration with its snapshot
\* file are in any condition; the indexes answer a query without facet or
\* symbol, or one with a facet.
InitQuery ==
    /\ IdleChunker
    /\ fs = [p \in Range(AllPaths) |-> Absent]
    /\ config = BaseConfig
    /\ disk \in SnapshotFiles(FewPassages)
    /\ last = NoCall
    /\ loaded = <<>>
    /\ searchQuery \in {"the a of", "token"}
    /\ searchOptions \in [maxResults : 1..MaxResults, fileFilter : {"", "docs/**"}]
    /\ indexHits \in SourceHits(disk, config, MaxSourceHits)
    /\ searchResults = <<>>
    /\ baselineResults = <<>>
    /\ globalDisk \in {[configured |-> FALSE]}
                         \cup {[configured |-> TRUE, config |-> BaseConfig, file |-> f] :
                                  f \in SnapshotFiles(GlobalPassages)}
    /\ globalHits \in IF globalDisk.configured
                      THEN SourceHits(globalDisk.file, globalDisk.config, MaxSourceHits)
                      ELSE {<<>>}
    /\ sources = <<>>
    /\ outcome = <<>>
    /\ loop = [pc |-> "idle"]
    /\ crawl = [pc |-> "idle"]

\* resolveIndexSources(); loaded keeps what its call of loadPersistedIndex on
\* the local snapshot file returned or threw.
ResolveIndexSources ==
    /\ sources = <<>>
    /\ sources' = <<resolveIndexSources(disk, config, globalDisk)>>
    /\ loaded' = <<loadPersistedIndex(disk, config)>>
    /\ UNCHANGED <<fs, config, disk, last, globalDisk, globalHits, outcome>>
    /\ UNCHANGED <<chunkerVars, searchVars>>
    /\ UNCHANGED rerankVars
    /\ UNCHANGED crawlVars

\* searchAllIndexes or searchAllIndexesBaseline on the resolved sources; the
\* local index answers indexHits, the global one globalHits.
SearchAllIndexes(searchFn) ==
    /\ sources # <<>>
    /\ outcome = <<>>
    /\ \E answers \in {[ix \in {sources[1][i].index : i \in 1..Len(sources[1])} |->
                           IF disk.exists /\ disk.json.wellFormed
                                 /\ ix = disk.json.data.miniSearchIndex
                           THEN indexHits ELSE globalHits]} :
           outcome' = <<IF searchFn = "search"
                        THEN searchAllIndexes(sources[1], searchQuery, searchOptions, answers)
                        ELSE searchAllIndexesBaseline(sources[1], searchQuery,
                                                      searchOptions, answers)>>
    /\ UNCHANGED <<globalDisk, globalHits, sources>>
    /\ UNCHANGED <<chunkerVars, indexerVars, searchVars>>
    /\ UNCHANGED rerankVars
    /\ UNCHANGED crawlVars

NextQuery ==
    \/ ResolveIndexSources
    \/ \E searchFn \in {"search", "searchBaseline"} : SearchAllIndexes(searchFn)

SpecQuery == InitQuery /\ [][NextQuery]_vars

-----------------------------------------------------------------------------
(* Properties of the search command                                        *)

\* The error of a query without an index (the command is between backquotes
\* in the source).
IndexNotFound == "Index not found. Run 'refdocs index' first."

\* C17: a query against no index fails with the error 'Index not found. Run
\* refdocs index first.': loadPersistedIndex on a missing file throws it, and
\* no other error of a load is that one; searchAllIndexes on an empty list of
\* sources throws it.  A query on existing indexes that match nothing returns
\* an empty list and no error.
C17_NotFoundOrEmpty ==
    /\ loaded # <<>> =>
           /\ ~disk.exists => loaded[1] = [ok |-> FALSE, error |-> IndexNotFound]
           /\ (disk.exists /\ ~loaded[1].ok) => loaded[1].error # IndexNotFound
    /\ outcome # <<>> =>
           /\ sources[1] = <<>> => outcome[1] = [ok |-> FALSE, error |-> IndexNotFound]
           /\ (sources[1] # <<>> /\ indexHits = <<>> /\ globalHits = <<>>) =>
                  outcome[1] = [ok |-> TRUE, results |-> <<>>]

\* The command ran without a local snapshot file and without a global
\* configuration, and failed.
C17_Witness ==
    /\ ~disk.exists
    /\ ~globalDisk.configured
    /\ loaded # <<>>
    /\ outcome # <<>>
    /\ sources[1] = <<>>
    /\ ~outcome[1].ok

\* The snapshot file exists and is damaged or of another version.
Unloadable(file) ==
    /\ file.exists
    /\ \/ ~file.json.wellFormed
       \/ file.json.data.version # INDEX_VERSION

\* C18: when a snapshot on the path of the query exists but is of another
\* version or damaged, the command fails with the error of that load: it does
\* not answer as if the snapshot were not there, and its error is not the
\* one of a missing index.
C18_LoadErrorSurfaced ==
    /\ outcome # <<>>
    /\ \/ Unloadable(disk)
       \/ globalDisk.configured /\ Unloadable(globalDisk.file)
    => /\ ~outcome[1].ok
       /\ outcome[1].error # IndexNotFound

\* C19: searchAllIndexes on a list of sources that is not empty returns at
\* most maxResults results, the scores never increasing down the list across
\* the sources; a result of a source with a label has its file after the
\* label, once, and a result of the source without label has its file as it
\* is.
C19_MergedResults ==
    (outcome # <<>> /\ sources[1] # <<>>) =>
        /\ outcome[1].ok
        /\ Len(outcome[1].results) <= searchOptions.maxResults
        /\ \A i \in 1..(Len(outcome[1].results) - 1) :
               ~Less(outcome[1].results[i].score, outcome[1].results[i + 1].score)
        /\ \A i \in 1..Len(outcome[1].results) :
               \/ \E c \in Range(FewPassages) :
                      /\ c.body = outcome[1].results[i].body
                      /\ outcome[1].results[i].file = c.file
               \/ \E c \in Range(GlobalPassages) :
                      /\ c.body = outcome[1].results[i].body
                      /\ outcome[1].results[i].file = "[global] " \o c.file

\* A result of the global index ranks before a result of the local index of
\* the same path.
C19_Witness ==
    /\ outcome # <<>>
    /\ outcome[1].ok
    /\ Len(sources[1]) = 2
    /\ Len(outcome[1].results) >= 2
    /\ outcome[1].results[1].file = "[global] docs/auth.md"
    /\ outcome[1].results[2].file = "docs/auth.md"

-----------------------------------------------------------------------------
(* search round by round: the pool is built, then every round of the       *)
(* while loop of rerankCandidates is a step.                               *)

\* The results of the selected candidates: reranked.map((c) => c.result)
ResultsOf(selected) == [i \in 1..Len(selected) |-> selected[i].result]

\* search up to the while loop of rerankCandidates: no hit passes the filter
\* and search returns []; or the pool has one candidate at most or the query
\* no facet and no symbol, and the first maxResults candidates are returned;
\* or the loop starts with every candidate remaining.
BeginRerank ==
    /\ loop.pc = "idle"
    /\ \E candidates \in {buildCandidates(
                               Slice(searchEnriched(indexHits, ChunkMap,
                                                    searchOptions.fileFilter),
                                     PoolSize(searchOptions.maxResults)),
                               searchQuery)} :
           IF Len(candidates) <= 1 \/ NoSignals(buildQuerySignals(searchQuery))
           THEN /\ loop' = [pc |-> "done",
                            st |-> [remaining |-> candidates,
                                    selected |-> Slice(candidates, searchOptions.maxResults),
                                    coveredFacets |-> {}, coveredSymbols |-> {}]]
                /\ searchResults' =
                       <<ResultsOf(Slice(candidates, searchOptions.maxResults))>>
           ELSE /\ loop' = [pc |-> "loop",
                            st |-> [remaining |-> candidates, selected |-> <<>>,
                                    coveredFacets |-> {}, coveredSymbols |-> {}]]
                /\ UNCHANGED searchResults
    /\ UNCHANGED <<searchQuery, searchOptions, indexHits, baselineResults>>
    /\ UNCHANGED <<chunkerVars, indexerVars, queryVars, crawlVars>>

\* One round of while (selected.length < maxResults && remaining.length > 0).
RerankRound ==
    /\ loop.pc = "loop"
    /\ Len(loop.st.selected) < searchOptions.maxResults
    /\ Len(loop.st.remaining) > 0
    /\ loop' = [loop EXCEPT !.st = Round(loop.st, buildQuerySignals(searchQuery))]
    /\ UNCHANGED <<searchVars, chunkerVars, indexerVars, queryVars, crawlVars>>

\* The loop ends, rerankCandidates returns selected and search its results.
EndRerank ==
    /\ loop.pc = "loop"
    /\ ~(Len(loop.st.selected) < searchOptions.maxResults /\ Len(loop.st.remaining) > 0)
    /\ loop' = [loop EXCEPT !.pc = "done"]
    /\ searchResults' = <<ResultsOf(loop.st.selected)>>
    /\ UNCHANGED <<searchQuery, searchOptions, indexHits, baselineResults>>
    /\ UNCHANGED <<chunkerVars, indexerVars, queryVars, crawlVars>>

NextRerank == BeginRerank \/ RerankRound \/ EndRerank

SpecRerank == InitSearch /\ [][NextRerank]_vars

-----------------------------------------------------------------------------
(* Properties of the reranker                                              *)

\* The greatest of a set of fractions that is not empty.
MaxOf(set) == CHOOSE x \in set : \A y \in set : ~Less(x, y)

\* The score of candidate c in a round that starts in st:
\* staticRelevance + 0.5 facetGain + 0.35 symbolGain + 0.18 tokenEfficiency
\* - 0.22 maxJaccard - 0.08 sameFile, the gains being the share of the facets
\* (symbols) of the query that c matches and no selected candidate covers.
IterationScore(c, st, signals) ==
    LET newFacets == Cardinality(c.matchedFacets \ st.coveredFacets)
        newSymbols == Cardinality(c.matchedSymbols \ st.coveredSymbols)
        facetGain == IF Len(signals.facets) > 0
                     THEN Frac(newFacets, Len(signals.facets)) ELSE Frac(0, 1)
        symbolGain == IF Len(signals.symbols) > 0
                      THEN Frac(newSymbols, Len(signals.symbols)) ELSE Frac(0, 1)
        size == IF c.chunk.tokenEstimate > 80 THEN c.chunk.tokenEstimate ELSE 80
        efficiency == Least(Frac(1, 1), Frac((2 * newFacets + 3 * newSymbols) * 80, 2 * size))
        overlaps == {Frac(0, 1)} \cup
                        {jaccard(c.signatureTokens, st.selected[k].signatureTokens) :
                            k \in 1..Len(st.selected)}
        sameFile == IF \E k \in 1..Len(st.selected) : st.selected[k].chunk.file = c.chunk.file
                    THEN Frac(8, 100) ELSE Frac(0, 1)
    IN  Minus(Minus(Plus(Plus(Plus(c.staticRelevance, Times(Frac(50, 100), facetGain)),
                              Times(Frac(35, 100), symbolGain)),
                         Times(Frac(18, 100), efficiency)),
                    Times(Frac(22, 100), MaxOf(overlaps))),
              sameFile)

\* Candidate b of remaining has the greatest score of the round that starts
\* in st, and is the first of those that have it.
IsFirstBest(b, st, signals) ==
    /\ \A i \in 1..Len(st.remaining) :
           ~Less(IterationScore(st.remaining[b], st, signals),
                 IterationScore(st.remaining[i], st, signals))
    /\ \A i \in 1..(b - 1) :
           Less(IterationScore(st.remaining[i], st, signals),
                IterationScore(st.remaining[b], st, signals))

\* C21: in every round of the greedy loop the candidate that moves from
\* remaining to selected has the greatest iteration score, computed against
\* the covered sets and the selected list of that round, and is the earliest
\* of the pool among those tied for it; after the round the covered facets
\* and symbols are the union of the matched ones of the selected candidates.
C21_GreedyChoice ==
    [][(loop.pc = "loop" /\ loop'.pc = "loop" /\ loop'.st # loop.st) =>
          /\ \E b \in 1..Len(loop.st.remaining) :
                 /\ IsFirstBest(b, loop.st, buildQuerySignals(searchQuery))
                 /\ loop'.st.selected[Len(loop'.st.selected)].chunk
                        = loop.st.remaining[b].chunk
                 /\ loop'.st.remaining
                        = SubSeq(loop.st.remaining, 1, b - 1)
                              \o SubSeq(loop.st.remaining, b + 1, Len(loop.st.remaining))
          /\ Len(loop'.st.selected) = Len(loop.st.selected) + 1
          /\ loop'.st.coveredFacets
                 = UNION {loop'.st.selected[k].matchedFacets :
                             k \in 1..Len(loop'.st.selected)}
          /\ loop'.st.coveredSymbols
                 = UNION {loop'.st.selected[k].matchedSymbols :
                             k \in 1..Len(loop'.st.selected)}]_vars

\* After a first round, two remaining candidates are tied for the greatest
\* score of a round that is still to run.
C21_Witness ==
    /\ loop.pc = "loop"
    /\ Len(loop.st.selected) >= 1
    /\ Len(loop.st.selected) < searchOptions.maxResults
    /\ loop.st.coveredFacets # {}
    /\ \E b \in 1..Len(loop.st.remaining) :
           /\ IsFirstBest(b, loop.st, buildQuerySignals(searchQuery))
           /\ \E i \in (b + 1)..Len(loop.st.remaining) :
                  IterationScore(loop.st.remaining[i], loop.st, buildQuerySignals(searchQuery))
                      = IterationScore(loop.st.remaining[b], loop.st,
                                       buildQuerySignals(searchQuery))

\* The pool of search: the first max(maxResults * 6, 20) hits that pass the
\* file filter.
Pool == Slice(FilteredHits, PoolSize(searchOptions.maxResults))

\* The candidates of the pool, remaining or selected.
PoolCandidates ==
    IF loop.pc = "idle" THEN {}
    ELSE Range(loop.st.remaining) \cup
             (IF loop.pc = "loop" THEN Range(loop.st.selected) ELSE {})

\* The raw score of the hit that candidate c was built from.
RawScore(c) ==
    (CHOOSE e \in Range(Pool) : e.chunk.id = c.chunk.id).searchResult.score

\* The share of the facets (symbols) of the query that the candidate matches.
Share(matched, list) ==
    IF Len(list) > 0 THEN Frac(Cardinality(matched), Len(list)) ELSE Frac(0, 1)

\* 0.66 normScore + 0.20 facetCoverage + 0.14 symbolCoverage
\* - 0.08 min(1, tokenEstimate / 500), normScore being the raw score over
\* the divisor.
WeightedSum(c, divisor, signals) ==
    Minus(Plus(Plus(Times(Frac(66, 100), Over(RawScore(c), divisor)),
                    Times(Frac(20, 100), Share(c.matchedFacets, signals.facets))),
               Times(Frac(14, 100), Share(c.matchedSymbols, signals.symbols))),
          Times(Frac(8, 100), Least(Frac(1, 1), Frac(c.chunk.tokenEstimate, 500))))

\* C22: the static relevance of every candidate of the pool is
\* 0.66 normScore + 0.20 facetCoverage + 0.14 symbolCoverage
\* - 0.08 min(1, tokenEstimate / 500), where normScore is the raw score
\* divided by the greatest raw score of the pool, so that the top hit of the
\* pool has normScore 1 whatever the raw scores are.
C22_NormalizedByPoolMax ==
    \A c \in PoolCandidates :
        c.staticRelevance
            = WeightedSum(c, MaxOf({e.searchResult.score : e \in Range(Pool)}),
                          buildQuerySignals(searchQuery))

\* C22, amended: normScore is the raw score divided by the greatest raw score
\* of the pool or by 1 when that is greater; the top hit of the pool has
\* normScore 1 when its raw score is 1 at least, and its raw score otherwise.
C22_NormalizedByFlooredMax ==
    \A c \in PoolCandidates :
        c.staticRelevance
            = WeightedSum(c, MaxOf({Frac(1, 1)} \cup {e.searchResult.score : e \in Range(Pool)}),
                          buildQuerySignals(searchQuery))

\* The candidates are built from a pool of two hits or more whose raw scores
\* are all below 1, for a query with a facet that one candidate matches.
C22_Witness ==
    /\ loop.pc = "loop"
    /\ Len(Pool) >= 2
    /\ \A e \in Range(Pool) : Less(e.searchResult.score, Frac(1, 1))
    /\ \E c \in PoolCandidates : c.matchedFacets # {}

\* The top max(maxResults * 6, 20) of the raw hits that pass the file filter.
TopHits ==
    SubSeq(FilteredHits, 1,
           LET bound == IF searchOptions.maxResults * 6 > 20
                        THEN searchOptions.maxResults * 6 ELSE 20
           IN  IF Len(FilteredHits) < bound THEN Len(FilteredHits) ELSE bound)

\* C23: every result of search is the passage of one of the top
\* max(maxResults * 6, 20) raw hits that pass the file filter, each hit
\* giving one result at most; a hit ranked below that bound is never
\* returned, whatever facets or symbols it covers.
C23_ResultsFromPool ==
    searchResults # <<>> =>
        \E from \in [1..Len(searchResults[1]) -> 1..Len(TopHits)] :
            /\ \A i, j \in DOMAIN from : i # j => from[i] # from[j]
            /\ \A i \in DOMAIN from :
                   /\ searchResults[1][i].file = TopHits[from[i]].chunk.file
                   /\ searchResults[1][i].body = TopHits[from[i]].chunk.body
                   /\ searchResults[1][i].lines
                          = <<TopHits[from[i]].chunk.startLine, TopHits[from[i]].chunk.endLine>>

\* search answered a query for a symbol that only a hit below the pool bound
\* has, and returned as many results as were asked for.
C23_Witness ==
    /\ searchResults # <<>>
    /\ searchQuery = "getToken"
    /\ Len(FilteredHits) > Len(TopHits)
    /\ Includes(normalizeText(FilteredHits[Len(FilteredHits)].chunk.body), "gettoken")
    /\ Len(searchResults[1]) = searchOptions.maxResults

NonIncreasing(results) ==
    \A i \in 1..(Len(results) - 1) : ~Less(results[i].score, results[i + 1].score)

\* C28: the scores of the list search returns never increase down the list,
\* also when reranking is active: from one round of the greedy loop to the
\* next the iteration score of a remaining candidate never increases, so a
\* selected score is at most the one selected before it; and the sort by
\* score of searchAllIndexes leaves the results of one source in their order.
C28_ScoresNonIncreasing ==
    /\ [](/\ loop.pc # "idle" => NonIncreasing(ResultsOf(loop.st.selected))
          /\ loop.pc = "done" =>
                 /\ NonIncreasing(searchResults[1])
                 /\ SortByScore(searchResults[1]) = searchResults[1])
    /\ [][(loop.pc = "loop" /\ loop'.pc = "loop" /\ loop'.st # loop.st) =>
              \A i \in 1..Len(loop'.st.remaining) :
                  ~Less(MarginalScore(loop'.st.remaining[i], loop.st.selected,
                                      loop.st.coveredFacets, loop.st.coveredSymbols,
                                      buildQuerySignals(searchQuery)),
                        MarginalScore(loop'.st.remaining[i], loop'.st.selected,
                                      loop'.st.coveredFacets, loop'.st.coveredSymbols,
                                      buildQuerySignals(searchQuery)))]_vars

\* Reranking selected three candidates, each with a lower score than the one
\* before, the last two of one file.
C28_Witness ==
    /\ loop.pc = "done"
    /\ Len(Pool) >= 3
    /\ ~NoSignals(buildQuerySignals(searchQuery))
    /\ Len(searchResults[1]) = 3
    /\ Less(searchResults[1][2].score, searchResults[1][1].score)
    /\ Less(searchResults[1][3].score, searchResults[1][2].score)
    /\ searchResults[1][3].file = searchResults[1][2].file

\* A step of search is possible exactly until the loop has returned: at "idle"
\* BeginRerank, at "loop" RerankRound or EndRerank, whose guards are each
\* other's negation. This is ENABLED <<NextRerank>>_vars.
Running == loop.pc # "done"

\* search is straight-line synchronous code: a step that can be taken is
\* taken. Weak fairness of NextRerank, with its enabling condition written
\* out as Running.
SpecRerankFair == SpecRerank /\ ([]<>(~Running) \/ []<><<Running /\ NextRerank>>_vars)

\* min(maxResults, pool size)
Quota ==
    IF searchOptions.maxResults < Len(Pool) THEN searchOptions.maxResults ELSE Len(Pool)

\* C29: the greedy loop of the reranker ends, after exactly
\* min(maxResults, pool size) rounds, each of which selects one candidate;
\* that many results are returned, each a candidate of the pool and no two
\* the same; when maxResults is the pool size at least, the results are a
\* permutation of the pool.
C29_LoopTerminates ==
    /\ <>(loop.pc = "done")
    /\ [][(loop.pc = "loop" /\ loop'.pc = "loop" /\ loop'.st # loop.st) =>
              /\ Len(loop'.st.selected) = Len(loop.st.selected) + 1
              /\ Len(loop'.st.remaining) = Len(loop.st.remaining) - 1
              /\ Len(loop'.st.selected) <= Quota]_vars
    /\ [](loop.pc = "done" =>
              /\ Len(loop.st.selected) = Quota
              /\ Len(searchResults[1]) = Quota
              /\ \A i \in 1..Quota :
                     /\ \E e \in Range(Pool) :
                            /\ loop.st.selected[i].chunk = e.chunk
                            /\ searchResults[1][i].body = e.chunk.body
                     /\ \A j \in 1..Quota :
                            i # j => loop.st.selected[i].chunk.id # loop.st.selected[j].chunk.id
              /\ searchOptions.maxResults >= Len(Pool) =>
                     {loop.st.selected[i].chunk : i \in 1..Quota}
                         = {e.chunk : e \in Range(Pool)})

\* The loop ended after as many rounds as the pool has candidates, fewer than
\* maxResults, and returned them in another order than the pool's.
C29_Witness ==
    /\ loop.pc = "done"
    /\ ~NoSignals(buildQuerySignals(searchQuery))
    /\ Len(Pool) >= 2
    /\ searchOptions.maxResults > Len(Pool)
    /\ Len(searchResults[1]) = Len(Pool)
    /\ searchResults[1][1].body # Pool[1].chunk.body

-----------------------------------------------------------------------------
(* The site crawler (src/crawl.ts).  A URL is the record of the parts of a *)
(* parsed URL object; its string is the concatenation of the parts.  The   *)
(* hrefs of a page are absolute, so that new URL(href, base) is the href.  *)

Origin == "https://example.com"

Url(origin, pathname, hash) == [origin |-> origin, pathname |-> pathname, hash |-> hash]

\* u.toString()
UrlString(u) == u.origin \o u.pathname \o u.hash

EndsWith(str, suffix) ==
    Len(str) >= Len(suffix) /\ SubSeq(str, Len(str) - Len(suffix) + 1, Len(str)) = suffix

StartsWith(str, prefix) ==
    Len(str) >= Len(prefix) /\ SubSeq(str, 1, Len(prefix)) = prefix

normalizeUrlMutant(u) == [u EXCEPT !.hash = ""]

\* normalizeUrl: the fragment is dropped and one trailing slash is stripped
\* from a path that is not the root.
normalizeUrl(u) ==
    [u EXCEPT !.hash = "",
              !.pathname = IF Len(@) > 1 /\ EndsWith(@, "/")
                           THEN SubSeq(@, 1, Len(@) - 1) ELSE @]

\* isSubPath(candidate, scope)
isSubPath(candidate, scope) ==
    /\ candidate.origin = scope.origin
    /\ \/ candidate.pathname = scope.pathname
       \/ StartsWith(candidate.pathname,
                     IF EndsWith(scope.pathname, "/") THEN scope.pathname
                     ELSE scope.pathname \o "/")

RECURSIVE ExtFrom(_, _)
\* The extension that starts at the last dot of the last segment, looked for
\* from position i down; a dot that starts the segment starts no extension.
ExtFrom(path, i) ==
    IF i <= 1 \/ CharAt(path, i) = "/" THEN ""
    ELSE IF CharAt(path, i) = "."
         THEN IF CharAt(path, i - 1) = "/" THEN "" ELSE SubSeq(path, i, Len(path))
    ELSE ExtFrom(path, i - 1)

RECURSIVE extname(_)
\* path.extname, which leaves trailing slashes out.
extname(path) ==
    IF Len(path) > 1 /\ EndsWith(path, "/") THEN extname(SubSeq(path, 1, Len(path) - 1))
    ELSE ExtFrom(path, Len(path))

\* discoverLinks(html, pageUrl, scope), for the hrefs of the page: each is
\* normalized, and the list is without duplicates.
discoverLinks(hrefs, scope) ==
    Unique(SelectSeq([i \in 1..Len(hrefs) |-> normalizeUrl(hrefs[i])],
                     LAMBDA link : isSubPath(link, scope)
                                     /\ extname(link.pathname) \in {"", ".html", ".htm"}))

\* The hrefs a page of the site may hold.
LinkPool ==
    {Url(Origin, "/docs", ""), Url(Origin, "/docs/a", ""), Url(Origin, "/docs/a/", ""),
     Url(Origin, "/docs/a", "#top"), Url(Origin, "/docs/a//", ""),
     Url(Origin, "/docs/a///", ""),
     Url(Origin, "/docs/b.html", ""), Url(Origin, "/docs/pic.png", ""),
     Url(Origin, "/docsx", ""), Url("https://other.org", "/docs/a", "")}

MaxLinks == 2

MaxCrawlPages == 3

MaxCrawlDepth == 2

\* The lists of at most n hrefs.
LinkLists(n) == UNION {[1..k -> LinkPool] : k \in 0..n}

\* What fetchPage gives: it throws, or returns a page of another content
\* type, or an HTML page with its hrefs.
Responses ==
    {[kind |-> "error"], [kind |-> "other"]}
        \cup {[kind |-> "html", hrefs |-> l] : l \in LinkLists(MaxLinks)}

IsVisitedMutant(url, visited) == url \in visited

\* visited.has(normalizeUrl(url))
IsVisited(url, visited) == normalizeUrl(url) \in visited

\* The links of a page that are pushed on the queue: those not yet visited.
Pushed(links, visited, depth) ==
    LET fresh == SelectSeq(links, LAMBDA link : ~IsVisited(link, visited))
    IN  [i \in 1..Len(fresh) |-> [url |-> fresh[i], depth |-> depth]]

\* queue.length > 0 && filesWritten < opts.maxPages
Continues(c) == Len(c.queue) > 0 /\ c.filesWritten < c.opts.maxPages

\* crawlSite(startUrl, outputDir, options) up to its loop.
CrawlSite(startUrl, opts) ==
    /\ crawl.pc = "idle"
    /\ crawl' = [pc |-> "loop", opts |-> opts, scope |-> normalizeUrl(startUrl),
                 visited |-> {}, queue |-> <<[url |-> normalizeUrl(startUrl), depth |-> 0]>>,
                 pages |-> <<>>, filesWritten |-> 0, fetched |-> <<>>]
    /\ UNCHANGED <<chunkerVars, indexerVars, searchVars, queryVars, rerankVars>>

\* An iteration that finds the URL visited: continue.
SkipVisited ==
    /\ crawl.pc = "loop"
    /\ Continues(crawl)
    /\ IsVisited(Head(crawl.queue).url, crawl.visited)
    /\ crawl' = [crawl EXCEPT !.queue = Tail(@)]
    /\ UNCHANGED <<chunkerVars, indexerVars, searchVars, queryVars, rerankVars>>

\* An iteration that fetches the URL; fetched lists the calls of fetch.
FetchPage(response) ==
    /\ crawl.pc = "loop"
    /\ Continues(crawl)
    /\ \E item \in {Head(crawl.queue)} : \E normalized \in {normalizeUrl(item.url)} :
           /\ ~IsVisited(item.url, crawl.visited)
           /\ crawl' =
                  IF response.kind = "html"
                  THEN [crawl EXCEPT
                           !.visited = @ \cup {normalized},
                           !.fetched = Append(@, UrlString(normalized)),
                           !.filesWritten = @ + 1,
                           !.pages = Append(@, UrlString(normalized)),
                           !.queue =
                               IF item.depth < crawl.opts.depth
                               THEN Tail(@) \o Pushed(discoverLinks(response.hrefs,
                                                                    crawl.scope),
                                                      crawl.visited \cup {normalized},
                                                      item.depth + 1)
                               ELSE Tail(@)]
                  ELSE [crawl EXCEPT
                           !.visited = @ \cup {normalized},
                           !.fetched = Append(@, UrlString(normalized)),
                           !.queue = Tail(@)]
    /\ UNCHANGED <<chunkerVars, indexerVars, searchVars, queryVars, rerankVars>>

\* The loop is left and { filesWritten, pages } returned.
ReturnCrawl ==
    /\ crawl.pc = "loop"
    /\ ~Continues(crawl)
    /\ crawl' = [crawl EXCEPT !.pc = "done"]
    /\ UNCHANGED <<chunkerVars, indexerVars, searchVars, queryVars, rerankVars>>

InitCrawl ==
    /\ IdleChunker
    /\ fs = [p \in Range(AllPaths) |-> Absent]
    /\ config = BaseConfig
    /\ disk = NoFile
    /\ last = NoCall
    /\ loaded = <<>>
    /\ searchQuery = ""
    /\ searchOptions = <<>>
    /\ indexHits = <<>>
    /\ searchResults = <<>>
    /\ baselineResults = <<>>
    /\ IdleQuery

NextCrawl ==
    \/ \E startUrl \in {Url(Origin, "/docs", ""), Url(Origin, "/docs/", "#top")},
          opts \in [maxPages : 1..MaxCrawlPages, depth : 0..MaxCrawlDepth] :
           CrawlSite(startUrl, opts)
    \/ SkipVisited
    \/ \E response \in Responses : FetchPage(response)
    \/ ReturnCrawl

\* Every fetch returns or throws, and the loop runs on.
SpecCrawl == InitCrawl /\ [][NextCrawl]_vars /\ WF_vars(NextCrawl)

\* C27: in one run of crawlSite no URL is fetched twice, whatever links the
\* pages hold (back to pages already fetched, twice on a page or on two
\* pages, with a fragment or with trailing slashes), and the crawl ends.
C27_NoRefetch ==
    /\ [](crawl.pc # "idle" =>
              \A i, j \in 1..Len(crawl.fetched) :
                  i # j => crawl.fetched[i] # crawl.fetched[j])
    /\ <>(crawl.pc = "done")

\* Two pages are fetched and the next URL of the queue, pushed with a
\* trailing slash before its page was fetched, is that of a fetched page.
C27_Witness ==
    /\ crawl.pc = "loop"
    /\ Len(crawl.fetched) >= 2
    /\ Continues(crawl)
    /\ Head(crawl.queue).url \notin crawl.visited
    /\ IsVisited(Head(crawl.queue).url, crawl.visited)

=============================================================================
